---------------------------- MODULE Spec2Model ----------------------------
(***************************************************************************)
(* TSP AutoDJ: the compatibility model (CamelotWheel, BPMDistance), the    *)
(* tour solver (TSPSolver) of src/tsp_autodj.py, and the crossfade engine  *)
(* (AudioMixer) and tour player (TSPAutoDJPlayer) of                       *)
(* src/tsp_autodj_player.py.                                               *)
(*                                                                         *)
(* Python floats are modelled as exact rationals <<numerator, denominator>>*)
(* in lowest terms with a positive denominator, so that equal values are   *)
(* equal tuples.                                                           *)
(***************************************************************************)
EXTENDS Integers, Sequences, FiniteSets, TLC

VARIABLES
    call,               \* the last call made and what it returned: [op, args, ret]
    songs,              \* TSPSolver.songs
    n,                  \* TSPSolver.n
    distance_matrix,    \* TSPSolver.distance_matrix
    pc,                 \* position of TSPSolver.__init__ / solve
    start,              \* solve: the loop variable of "for start in start_points"
    nn_tour,            \* solve: what solve_nearest_neighbor(start) returned
    opt_tour,           \* improve_2opt: the local "tour"
    opt_best_tour,      \* improve_2opt: best_tour
    opt_best_distance,  \* improve_2opt: best_distance
    iteration,          \* improve_2opt: rounds of the outer loop begun
    opt_accepted,       \* history: the new_tour values improve_2opt accepted
    best_tour,          \* solve: best_tour
    best_distance,      \* solve: best_distance
    result,             \* what solve returned
    current_audio,      \* AudioMixer.current_audio
    next_audio,         \* AudioMixer.next_audio
    current_position,   \* AudioMixer.current_position
    is_crossfading,     \* AudioMixer.is_crossfading
    crossfade_position, \* AudioMixer.crossfade_position
    is_playing,         \* AudioMixer.is_playing
    stream,             \* AudioMixer.stream: "none", "active" or "closed"
    xf_armed,           \* history: start_crossfade succeeded and every call since
                        \* was a render call that was silent or crossfading
    xf_staged,          \* history: next_audio when start_crossfade succeeded
    xf_frames,          \* history: frames mixed by the crossfade since then
    tour_songs,         \* TSPAutoDJPlayer: self.songs[song_idx] for song_idx in self.tour
    tour_pc,            \* position of play_tour_with_audio / _run_audio_tour
    tour_i,             \* _run_audio_tour: the loop index i of "for i, song_idx"
    crossfade_start,    \* _monitor_and_crossfade: the argument crossfade_start
    crossfade_triggered,\* _monitor_and_crossfade: crossfade_triggered
    info,               \* the last info = self.mixer.get_playback_info()
    attempted,          \* history: the play_song calls of the tour, [position, ok]
    audio_lock,         \* AudioMixer.audio_lock: "free" or the thread holding it
    control_pc,         \* the control thread's position inside a mixer call
    control_local,      \* that call's argument and locals
    render_pc,          \* the render thread's position inside _audio_callback
    render_local        \* that callback's locals

modelVars == <<call>>
solverVars == <<songs, n, distance_matrix, pc, start, nn_tour, opt_tour,
                opt_best_tour, opt_best_distance, iteration, opt_accepted,
                best_tour, best_distance, result>>
engineVars == <<current_audio, next_audio, current_position, is_crossfading,
                crossfade_position, is_playing, stream>>
historyVars == <<xf_armed, xf_staged, xf_frames>>
playerVars == <<tour_songs, tour_pc, tour_i, crossfade_start, crossfade_triggered, info,
                attempted>>
lockVars == <<audio_lock, control_pc, control_local, render_pc, render_local>>
vars == <<modelVars, solverVars, engineVars, historyVars, playerVars, lockVars>>
notSolverVars == <<modelVars, engineVars, historyVars, playerVars, lockVars>>
notModelVars == <<solverVars, engineVars, historyVars, playerVars, lockVars>>
notEngineVars == <<solverVars, playerVars, lockVars>>

\* Optional values: Python's None is the empty tuple, a value x is <<x>>
None == <<>>
Some(x) == <<x>>
\* float('inf')
inf == <<1, 0>>

-----------------------------------------------------------------------------
(* Exact rational arithmetic standing for float arithmetic.                *)

Abs(x) == IF x < 0 THEN -x ELSE x

\* Each operation takes its result from a one-element set built over its
\* arguments' values, so an argument expression is evaluated once however
\* often the body uses it (also where ENABLED is evaluated).
RECURSIVE GCD(_, _)
GCD(a, b) ==
    CHOOSE r \in {IF y = 0 THEN x ELSE GCD(y, x % y) : x \in {a}, y \in {b}} : TRUE

Rat(num, den) ==
    CHOOSE r \in {LET g == GCD(Abs(x), Abs(y))
                      s == IF y < 0 THEN -1 ELSE 1
                  IN  <<(s * x) \div g, (s * y) \div g>> :
                  x \in {num}, y \in {den}} : TRUE

Zero == <<0, 1>>
One == <<1, 1>>

RAdd(a, b) ==
    CHOOSE r \in {LET g == GCD(x[2], y[2])
                      l == (x[2] \div g) * y[2]
                  IN  Rat(x[1] * (l \div x[2]) + y[1] * (l \div y[2]), l) :
                  x \in {a}, y \in {b}} : TRUE
RNeg(a) == CHOOSE r \in {<<-x[1], x[2]>> : x \in {a}} : TRUE
RSub(a, b) == RAdd(a, RNeg(b))
RMul(a, b) ==
    CHOOSE r \in {LET g1 == GCD(Abs(x[1]), y[2])
                      g2 == GCD(Abs(y[1]), x[2])
                  IN  Rat((x[1] \div g1) * (y[1] \div g2),
                          (x[2] \div g2) * (y[2] \div g1)) :
                  x \in {a}, y \in {b}} : TRUE
RDiv(a, b) == CHOOSE r \in {RMul(x, Rat(y[2], y[1])) : x \in {a}, y \in {b}} : TRUE
RAbs(a) == CHOOSE r \in {<<Abs(x[1]), x[2]>> : x \in {a}} : TRUE
RLt(a, b) == RSub(a, b)[1] < 0
RLe(a, b) == RSub(a, b)[1] <= 0
RMin(a, b) == CHOOSE r \in {IF RLt(y, x) THEN y ELSE x : x \in {a}, y \in {b}} : TRUE
RMax(a, b) == CHOOSE r \in {IF RLt(x, y) THEN y ELSE x : x \in {a}, y \in {b}} : TRUE

-----------------------------------------------------------------------------
(* CamelotWheel                                                            *)

WHEEL_POSITIONS ==
    ("1A" :> 0) @@ ("1B" :> 1) @@ ("2A" :> 2) @@ ("2B" :> 3) @@
    ("3A" :> 4) @@ ("3B" :> 5) @@ ("4A" :> 6) @@ ("4B" :> 7) @@
    ("5A" :> 8) @@ ("5B" :> 9) @@ ("6A" :> 10) @@ ("6B" :> 11) @@
    ("7A" :> 12) @@ ("7B" :> 13) @@ ("8A" :> 14) @@ ("8B" :> 15) @@
    ("9A" :> 16) @@ ("9B" :> 17) @@ ("10A" :> 18) @@ ("10B" :> 19) @@
    ("11A" :> 20) @@ ("11B" :> 21) @@ ("12A" :> 22) @@ ("12B" :> 23)

key_distance_no_cap(key1, key2) ==
    IF key1 = key2 THEN Zero
    ELSE IF key1 \notin DOMAIN WHEEL_POSITIONS \/ key2 \notin DOMAIN WHEEL_POSITIONS
    THEN One
    ELSE
        LET pos1 == WHEEL_POSITIONS[key1]
            pos2 == WHEEL_POSITIONS[key2]
            d == Abs((pos1 \div 2) - (pos2 \div 2))
            circle_dist == IF d < 12 - d THEN d ELSE 12 - d
            side_penalty == IF (pos1 % 2) # (pos2 % 2) THEN Rat(1, 5) ELSE Zero
        IN  RAdd(Rat(circle_dist, 6), side_penalty)

key_distance_no_wrap(key1, key2) ==
    IF key1 = key2 THEN Zero
    ELSE IF key1 \notin DOMAIN WHEEL_POSITIONS \/ key2 \notin DOMAIN WHEEL_POSITIONS
    THEN One
    ELSE
        LET pos1 == WHEEL_POSITIONS[key1]
            pos2 == WHEEL_POSITIONS[key2]
            d == Abs((pos1 \div 2) - (pos2 \div 2))
            side_penalty == IF (pos1 % 2) # (pos2 % 2) THEN Rat(1, 5) ELSE Zero
        IN  RMin(RAdd(Rat(d, 6), side_penalty), One)

key_distance(key1, key2) ==
    IF key1 = key2 THEN Zero
    ELSE IF key1 \notin DOMAIN WHEEL_POSITIONS \/ key2 \notin DOMAIN WHEEL_POSITIONS
    THEN One
    ELSE
        LET pos1 == WHEEL_POSITIONS[key1]
            pos2 == WHEEL_POSITIONS[key2]
            circle_pos1 == pos1 \div 2
            circle_pos2 == pos2 \div 2
            d == Abs(circle_pos1 - circle_pos2)
            circle_dist == IF d < 12 - d THEN d ELSE 12 - d
            side_penalty == IF (pos1 % 2) # (pos2 % 2) THEN Rat(1, 5) ELSE Zero
            normalized_dist == RAdd(Rat(circle_dist, 6), side_penalty)
        IN  RMin(normalized_dist, One)

-----------------------------------------------------------------------------
(* BPMDistance                                                             *)

harmonic_threshold_default == Rat(2, 25)    \* 0.08

harmonic_ratios ==
    <<Rat(2, 1), Rat(3, 2), Rat(4, 3), Rat(3, 4), Rat(2, 3), Rat(1, 2)>>

\* the body of "for target_ratio in harmonic_ratios", from index i on
RECURSIVE HarmonicLoop(_, _, _, _, _)
HarmonicLoop(i, best, bpm1, bpm2, harmonic_threshold) ==
    IF i > Len(harmonic_ratios) THEN best
    ELSE
        LET target_ratio == harmonic_ratios[i]
            actual_ratio == Rat(bpm1, bpm2)
            ratio_error == RDiv(RAbs(RSub(actual_ratio, target_ratio)), target_ratio)
            next_best ==
                IF RLe(ratio_error, harmonic_threshold)
                THEN RMin(best, RDiv(ratio_error, harmonic_threshold))
                ELSE best
        IN  HarmonicLoop(i + 1, next_best, bpm1, bpm2, harmonic_threshold)

PyMax(a, b) == IF b > a THEN b ELSE a
PyMin(a, b) == IF b < a THEN b ELSE a

bpm_distance_direct_only(bpm1, bpm2, harmonic_threshold) ==
    IF bpm1 = 0 \/ bpm2 = 0 THEN One
    ELSE
        LET ratio == Rat(PyMax(bpm1, bpm2), PyMin(bpm1, bpm2))
        IN  IF RLe(RSub(ratio, One), harmonic_threshold)
            THEN RDiv(RSub(ratio, One), harmonic_threshold)
            ELSE One

bpm_distance(bpm1, bpm2, harmonic_threshold) ==
    IF bpm1 = 0 \/ bpm2 = 0 THEN One
    ELSE
        LET ratio == Rat(PyMax(bpm1, bpm2), PyMin(bpm1, bpm2))
        IN  IF RLe(RSub(ratio, One), harmonic_threshold)
            THEN RDiv(RSub(ratio, One), harmonic_threshold)
            ELSE HarmonicLoop(1, One, bpm1, bpm2, harmonic_threshold)

-----------------------------------------------------------------------------
(* TSPSolver                                                               *)

\* max_iterations of improve_2opt, scaled down (the source's default is 1000)
max_iterations == 1

\* list(range(k))
Range(k) == [i \in 1..k |-> i - 1]

_calculate_distance_bpm_only(song1, song2) ==
    bpm_distance(song1.bpm, song2.bpm, harmonic_threshold_default)

_calculate_distance(song1, song2) ==
    LET key_dist == key_distance(song1.key, song2.key)
        bpm_dist == bpm_distance(song1.bpm, song2.bpm, harmonic_threshold_default)
        energy_diff == RAbs(RSub(song1.energy, song2.energy))
        energy_dist == RMin(RDiv(energy_diff, Rat(1, 10)), One)
    IN  RAdd(RAdd(RMul(key_dist, Rat(1, 2)), RMul(bpm_dist, Rat(7, 20))),
             RMul(energy_dist, Rat(3, 20)))

\* song i of the 0-based Python list is songs[i + 1]
_build_distance_matrix(songlist) ==
    [i \in 0..(Len(songlist) - 1) |->
        [j \in 0..(Len(songlist) - 1) |->
            IF i = j THEN Zero
            ELSE _calculate_distance(songlist[i + 1], songlist[j + 1])]]

LessThan_greater(distance, bound) == bound = inf \/ RLt(bound, distance)

LessThan_or_equal(distance, bound) == bound = inf \/ RLe(distance, bound)

\* "distance < nearest_distance", nearest_distance starting at float('inf')
LessThan(distance, bound) == bound = inf \/ RLt(distance, bound)

\* "for next_song in unvisited": a set of small ints is iterated in
\* ascending order; cand is the next candidate, size the number of songs
RECURSIVE NearestLoop(_, _, _, _, _, _, _)
NearestLoop(matrix, size, current, unvisited, cand, nearest_distance, nearest_song) ==
    IF cand >= size THEN nearest_song
    ELSE IF cand \in unvisited /\ LessThan(matrix[current][cand], nearest_distance)
    THEN NearestLoop(matrix, size, current, unvisited, cand + 1,
                     matrix[current][cand], Some(cand))
    ELSE NearestLoop(matrix, size, current, unvisited, cand + 1,
                     nearest_distance, nearest_song)

\* "while unvisited"
RECURSIVE NearestNeighborLoop(_, _, _, _, _)
NearestNeighborLoop(matrix, size, tour, unvisited, current) ==
    IF unvisited = {} THEN tour
    ELSE
        LET nearest_song == NearestLoop(matrix, size, current, unvisited, 0, inf, None)[1]
        IN  NearestNeighborLoop(matrix, size, Append(tour, nearest_song),
                                unvisited \ {nearest_song}, nearest_song)

solve_nearest_neighbor_keeps_start(matrix, size, start_index) ==
    NearestNeighborLoop(matrix, size, <<start_index>>, 0..(size - 1), start_index)

solve_nearest_neighbor(matrix, size, start_index) ==
    NearestNeighborLoop(matrix, size, <<start_index>>,
                        (0..(size - 1)) \ {start_index}, start_index)

\* sum of matrix[tour[i]][tour[(i + 1) % len(tour)]], from 0-based index i on
RECURSIVE TourDistanceFrom(_, _, _)
TourDistanceFrom(matrix, tour, i) ==
    IF i >= Len(tour) THEN Zero
    ELSE RAdd(matrix[tour[i + 1]][tour[((i + 1) % Len(tour)) + 1]],
              TourDistanceFrom(matrix, tour, i + 1))

_calculate_tour_distance(matrix, tour) == TourDistanceFrom(matrix, tour, 0)

ReverseSegment_through_j(tour, i, j) ==
    [p \in 1..Len(tour) |->
        IF i + 1 <= p /\ p <= j + 1 THEN tour[(i + 1) + (j + 1) - p] ELSE tour[p]]

\* new_tour = tour[:]; new_tour[i:j] = reversed(new_tour[i:j])   (0-based i, j)
ReverseSegment(tour, i, j) ==
    [p \in 1..Len(tour) |->
        IF i + 1 <= p /\ p <= j THEN tour[(i + 1) + j - p] ELSE tour[p]]

RECURSIVE ScanFrom_accepts_longer(_, _, _, _, _)
ScanFrom_accepts_longer(matrix, tour, bound, i, j) ==
    IF i >= Len(tour) - 2 THEN None
    ELSE IF j >= Len(tour) THEN ScanFrom_accepts_longer(matrix, tour, bound, i + 1, i + 2)
    ELSE IF j - i = 1 THEN ScanFrom_accepts_longer(matrix, tour, bound, i, j + 1)
    ELSE
        LET new_tour == ReverseSegment(tour, i, j)
        IN  IF RLt(bound, _calculate_tour_distance(matrix, new_tour))
            THEN Some(new_tour)
            ELSE ScanFrom_accepts_longer(matrix, tour, bound, i, j + 1)

\* One round of the double scan of improve_2opt, from the pair (i, j) on:
\* the first new_tour with new_distance < best_distance, or None.
RECURSIVE ScanFrom(_, _, _, _, _)
ScanFrom(matrix, tour, bound, i, j) ==
    IF i >= Len(tour) - 2 THEN None
    ELSE IF j >= Len(tour) THEN ScanFrom(matrix, tour, bound, i + 1, i + 2)
    ELSE IF j - i = 1 THEN ScanFrom(matrix, tour, bound, i, j + 1)
    ELSE
        LET new_tour == ReverseSegment(tour, i, j)
        IN  IF RLt(_calculate_tour_distance(matrix, new_tour), bound)
            THEN Some(new_tour)
            ELSE ScanFrom(matrix, tour, bound, i, j + 1)

ScanRound_skips_first(matrix, tour, bound) == ScanFrom(matrix, tour, bound, 2, 3)

\* one round: "for i in range(1, len(tour) - 2)" from its first pair on
ScanRound(matrix, tour, bound) == ScanFrom(matrix, tour, bound, 1, 2)

\* improve_2opt(tour): "for iteration in range(max_iterations)" from round
\* iteration on, best being best_tour and bound best_distance
RECURSIVE Improve2optLoop(_, _, _, _, _)
Improve2optLoop(matrix, tour, best, bound, round) ==
    IF round >= max_iterations THEN best
    ELSE
        LET found == ScanRound(matrix, tour, bound)
        IN  IF found = None THEN best
            ELSE Improve2optLoop(matrix, found[1], found[1],
                                 _calculate_tour_distance(matrix, found[1]),
                                 round + 1)

improve_2opt(matrix, tour) ==
    Improve2optLoop(matrix, tour, tour, _calculate_tour_distance(matrix, tour), 0)

-----------------------------------------------------------------------------
(* AudioMixer: the crossfade engine.  A stereo frame is one value (every   *)
(* operation treats both channels alike); a buffer is a sequence of frames.*)

\* sample_rate, scaled down (the source's default is 44100)
sample_rate == 1
\* int(sample_rate * 4.0)
crossfade_samples == sample_rate * 4
\* 0.8
master_volume == Rat(4, 5)

\* the frames of the buffers the loader returns
TrackLen == 5
\* the largest frame_count the stream asks for
MaxFrames == 4
\* start_crossfade is not called with the read cursor at or beyond this
MaxPosition == 6

\* np.tanh(x * 0.95) * 0.95 of a frame, kept symbolic; it maps 0 to 0
SoftLimit(x) == [tanh95 |-> x]
\* a frame of np.zeros
SilentFrame == SoftLimit(Zero)

Constant(k, v) == [i \in 1..k |-> v]
\* np.zeros((k, 2))
Zeros(k) == Constant(k, Zero)

\* len(audio)
PyLen(audio) == Len(audio[1])
\* a[lo:hi] of a Python sequence, 0 <= lo
Slice(a, lo, hi) ==
    LET top == IF hi < Len(a) THEN hi ELSE Len(a)
    IN  IF lo >= top THEN <<>> ELSE SubSeq(a, lo + 1, top)
\* a[lo:lo + len(b)] = b
Assign(a, lo, b) ==
    [i \in 1..Len(a) |-> IF lo < i /\ i <= lo + Len(b) THEN b[i - lo] ELSE a[i]]
Scaled(a, w) == [i \in 1..Len(a) |-> RMul(a[i], w)]
Mixed(a, wa, b, wb) == [i \in 1..Len(a) |-> RAdd(RMul(a[i], wa), RMul(b[i], wb))]

\* load_song_stems: the loader's answer for a song path, None when the
\* directory or its stems are missing
SongPaths == {"stems/ones", "stems/zeros", "stems/missing"}
\* the length of the tracks under stems/long_*, well above crossfade_samples
LongTrackLen == 10
load_song_stems(song_path) ==
    CASE song_path = "stems/ones" -> Some(Constant(TrackLen, One))
      [] song_path = "stems/zeros" -> Some(Zeros(TrackLen))
      [] song_path = "stems/long_ones" -> Some(Constant(LongTrackLen, One))
      [] song_path = "stems/long_halves" -> Some(Constant(LongTrackLen, Rat(1, 2)))
      [] song_path = "stems/long_zeros" -> Some(Zeros(LongTrackLen))
      [] OTHER -> None

\* the AudioMixer fields _generate_audio_chunk reads and writes
Self ==
    [current_audio |-> current_audio, next_audio |-> next_audio,
     current_position |-> current_position, is_crossfading |-> is_crossfading,
     crossfade_position |-> crossfade_position]

\* "if self.crossfade_position >= self.crossfade_samples"
CrossfadeComplete_beyond(st) == st.crossfade_position > crossfade_samples

CrossfadeComplete(st) == st.crossfade_position >= crossfade_samples

\* the "while samples_generated < frame_count" loop of the crossfade branch;
\* st is self with the locals output and samples_generated
RECURSIVE CrossfadeLoop(_, _)
CrossfadeLoop(st, frame_count) ==
    IF ~(st.samples_generated < frame_count) THEN st
    ELSE
        LET samples_needed ==
                PyMin(frame_count - st.samples_generated,
                      crossfade_samples - st.crossfade_position)
            fade_progress == Rat(st.crossfade_position, crossfade_samples)
            current_weight == RSub(One, fade_progress)
            next_weight == fade_progress
            current_chunk ==
                IF st.current_audio # None
                   /\ st.current_position + samples_needed <= PyLen(st.current_audio)
                THEN Slice(st.current_audio[1], st.current_position,
                           st.current_position + samples_needed)
                ELSE Zeros(samples_needed)
            next_chunk ==
                IF st.next_audio # None /\ samples_needed <= PyLen(st.next_audio)
                THEN Slice(st.next_audio[1], 0, samples_needed)
                ELSE Zeros(samples_needed)
            mixed_chunk == Mixed(current_chunk, current_weight, next_chunk, next_weight)
            advanced ==
                [st EXCEPT
                    !.output = Assign(st.output, st.samples_generated, mixed_chunk),
                    !.current_position = st.current_position + samples_needed,
                    !.crossfade_position = st.crossfade_position + samples_needed,
                    !.samples_generated = st.samples_generated + samples_needed]
        IN  IF samples_needed <= 0 THEN st
            ELSE IF CrossfadeComplete(advanced)
            THEN [advanced EXCEPT
                    !.current_audio = advanced.next_audio,
                    !.next_audio = None,
                    !.current_position = samples_needed,
                    !.is_crossfading = FALSE,
                    !.crossfade_position = 0]
            ELSE CrossfadeLoop(advanced, frame_count)

Limited(block) == [i \in 1..Len(block) |-> SoftLimit(block[i])]

EndOfTrackBlock_remaining_only(self, frame_count) ==
    Slice(self.current_audio[1], self.current_position, PyLen(self.current_audio))

\* the end-of-track branch: output (zeros) with the remaining frames copied in
EndOfTrackBlock(self, frame_count) ==
    LET remaining == PyLen(self.current_audio) - self.current_position
    IN  IF remaining > 0
        THEN Assign(Zeros(frame_count), 0,
                    Slice(self.current_audio[1], self.current_position,
                          PyLen(self.current_audio)))
        ELSE Zeros(frame_count)

\* _generate_audio_chunk: self after the call, with the block it returns as
\* field output and the crossfade branch's local samples_generated.  In the
\* mid-track branch output is a view of current_audio, so
\* "output *= self.master_volume" scales those frames of the buffer.
_generate_audio_chunk(self, frame_count) ==
    IF ~self.is_crossfading
    THEN
        IF self.current_position + frame_count < PyLen(self.current_audio)
        THEN
            LET view == Slice(self.current_audio[1], self.current_position,
                              self.current_position + frame_count)
            IN  [self EXCEPT
                    !.current_audio = Some(Assign(self.current_audio[1],
                                                  self.current_position,
                                                  Scaled(view, master_volume))),
                    !.current_position = self.current_position + frame_count]
                @@ [output |-> Limited(Scaled(view, master_volume)),
                    samples_generated |-> 0]
        ELSE
            LET filled == EndOfTrackBlock(self, frame_count)
            IN  [self EXCEPT !.current_position = PyLen(self.current_audio)]
                @@ [output |-> Limited(Scaled(filled, master_volume)),
                    samples_generated |-> 0]
    ELSE
        LET st == CrossfadeLoop(self @@ [output |-> Zeros(frame_count),
                                         samples_generated |-> 0], frame_count)
        IN  [current_audio |-> st.current_audio, next_audio |-> st.next_audio,
             current_position |-> st.current_position,
             is_crossfading |-> st.is_crossfading,
             crossfade_position |-> st.crossfade_position,
             output |-> Limited(Scaled(st.output, master_volume)),
             samples_generated |-> st.samples_generated]

ModelIdle == call = [op |-> "none", args |-> <<>>, ret |-> Zero]

SolverIdle ==
    /\ songs = <<>> /\ n = 0 /\ distance_matrix = <<>> /\ pc = "idle"
    /\ start = 0 /\ nn_tour = <<>> /\ opt_tour = <<>> /\ opt_best_tour = <<>>
    /\ opt_best_distance = Zero /\ iteration = 0 /\ opt_accepted = <<>>
    /\ best_tour = None
    /\ best_distance = inf /\ result = None

EngineInit ==
    /\ current_audio = None /\ next_audio = None /\ current_position = 0
    /\ is_crossfading = FALSE /\ crossfade_position = 0 /\ is_playing = FALSE
    /\ stream = "none"
    /\ xf_armed = FALSE /\ xf_staged = None /\ xf_frames = 0

\* no tour is being played
PlayerIdle ==
    /\ tour_songs = <<>> /\ tour_pc = "idle" /\ tour_i = 0 /\ crossfade_start = Zero
    /\ crossfade_triggered = FALSE /\ info = [playing |-> FALSE]
    /\ attempted = <<>>

\* no mixer call and no callback in progress, audio_lock = Lock() not held
LockIdle ==
    /\ audio_lock = "free"
    /\ control_pc = "idle" /\ control_local = None
    /\ render_pc = "idle" /\ render_local = None

Disarm == xf_armed' = FALSE /\ xf_staged' = None /\ xf_frames' = 0

\* setup_stream: the stream is opened started, the callback runs from here on
SetupStream ==
    /\ stream = "none"
    /\ stream' = "active"
    /\ call' = [op |-> "setup_stream", args |-> <<>>, ret |-> TRUE]
    /\ UNCHANGED <<current_audio, next_audio, current_position, is_crossfading,
                   crossfade_position, is_playing>>
    /\ UNCHANGED historyVars
    /\ UNCHANGED notEngineVars

AudioCallback_ignores_is_playing ==
    /\ stream = "active"
    /\ \E frame_count \in 0..MaxFrames :
          IF current_audio = None
          THEN /\ call' = [op |-> "_audio_callback", args |-> <<frame_count>>,
                            ret |-> Constant(frame_count, SilentFrame),
                            status |-> "paContinue"]
               /\ UNCHANGED <<current_audio, next_audio, current_position,
                              is_crossfading, crossfade_position>>
               /\ UNCHANGED historyVars
          ELSE \E after \in {_generate_audio_chunk(Self, frame_count)} :
                   /\ call' = [op |-> "_audio_callback", args |-> <<frame_count>>,
                                ret |-> after.output, status |-> "paContinue"]
                   /\ current_audio' = after.current_audio
                   /\ next_audio' = after.next_audio
                   /\ current_position' = after.current_position
                   /\ is_crossfading' = after.is_crossfading
                   /\ crossfade_position' = after.crossfade_position
                   /\ IF is_crossfading
                      THEN /\ xf_frames' = IF xf_armed
                                           THEN xf_frames + after.samples_generated
                                           ELSE xf_frames
                           /\ UNCHANGED <<xf_armed, xf_staged>>
                      ELSE Disarm
    /\ UNCHANGED <<is_playing, stream>>
    /\ UNCHANGED notEngineVars

\* _audio_callback(in_data, frame_count, time_info, status): the block
\* returned with the stream status, and what the call does to the mixer
_audio_callback(frame_count) ==
    /\ IF ~is_playing \/ current_audio = None
       THEN /\ call' = [op |-> "_audio_callback", args |-> <<frame_count>>,
                         ret |-> Constant(frame_count, SilentFrame),
                         status |-> "paContinue"]
            /\ UNCHANGED <<current_audio, next_audio, current_position,
                           is_crossfading, crossfade_position>>
            /\ UNCHANGED historyVars
       ELSE \E after \in {_generate_audio_chunk(Self, frame_count)} :
                /\ call' = [op |-> "_audio_callback", args |-> <<frame_count>>,
                             ret |-> after.output, status |-> "paContinue"]
                /\ current_audio' = after.current_audio
                /\ next_audio' = after.next_audio
                /\ current_position' = after.current_position
                /\ is_crossfading' = after.is_crossfading
                /\ crossfade_position' = after.crossfade_position
                /\ IF is_crossfading
                   THEN /\ xf_frames' = IF xf_armed
                                        THEN xf_frames + after.samples_generated
                                        ELSE xf_frames
                        /\ UNCHANGED <<xf_armed, xf_staged>>
                   ELSE Disarm
    /\ UNCHANGED <<is_playing, stream>>

\* the stream invokes the callback for some number of frames
AudioCallback ==
    /\ stream = "active"
    /\ \E frame_count \in 0..MaxFrames : _audio_callback(frame_count)
    /\ UNCHANGED notEngineVars

\* play_song(song_path): what the call does to the mixer
play_song(song_path) ==
    /\ LET audio == load_song_stems(song_path)
       IN  IF audio = None
           THEN /\ call' = [op |-> "play_song", args |-> <<song_path>>, ret |-> FALSE]
                /\ UNCHANGED <<current_audio, current_position, is_playing>>
           ELSE /\ current_audio' = audio
                /\ current_position' = 0
                /\ is_playing' = TRUE
                /\ call' = [op |-> "play_song", args |-> <<song_path>>, ret |-> TRUE]
    /\ UNCHANGED <<next_audio, is_crossfading, crossfade_position, stream>>
    /\ Disarm

PlaySong ==
    /\ \E song_path \in SongPaths : play_song(song_path)
    /\ UNCHANGED notEngineVars

prepare_next_song_clears_on_failure(song_path) ==
    /\ LET audio == load_song_stems(song_path)
       IN  /\ IF audio # None
              THEN next_audio' = audio
              ELSE next_audio' = None
           /\ call' = [op |-> "prepare_next_song", args |-> <<song_path>>,
                        ret |-> None]
    /\ UNCHANGED <<current_audio, current_position, is_crossfading,
                   crossfade_position, is_playing, stream>>
    /\ Disarm

\* prepare_next_song(song_path): what the call does to the mixer
prepare_next_song(song_path) ==
    /\ LET audio == load_song_stems(song_path)
       IN  /\ IF audio # None
              THEN next_audio' = audio
              ELSE UNCHANGED next_audio
           /\ call' = [op |-> "prepare_next_song", args |-> <<song_path>>,
                        ret |-> None]
    /\ UNCHANGED <<current_audio, current_position, is_crossfading,
                   crossfade_position, is_playing, stream>>
    /\ Disarm

PrepareNextSong ==
    /\ \E song_path \in SongPaths : prepare_next_song(song_path)
    /\ UNCHANGED notEngineVars

StartCrossfade_arms_without_next ==
    /\ current_position < MaxPosition
    /\ is_crossfading' = TRUE
    /\ crossfade_position' = 0
    /\ call' = [op |-> "start_crossfade", args |-> <<>>, ret |-> next_audio # None]
    /\ xf_armed' = (next_audio # None)
    /\ xf_staged' = next_audio
    /\ xf_frames' = 0
    /\ UNCHANGED <<current_audio, next_audio, current_position, is_playing,
                   stream>>
    /\ UNCHANGED notEngineVars

\* start_crossfade(): what the call does to the mixer
start_crossfade ==
    /\ IF next_audio # None
       THEN /\ is_crossfading' = TRUE
            /\ crossfade_position' = 0
            /\ call' = [op |-> "start_crossfade", args |-> <<>>, ret |-> TRUE]
            /\ xf_armed' = TRUE
            /\ xf_staged' = next_audio
            /\ xf_frames' = 0
       ELSE /\ call' = [op |-> "start_crossfade", args |-> <<>>, ret |-> FALSE]
            /\ UNCHANGED <<is_crossfading, crossfade_position>>
            /\ Disarm
    /\ UNCHANGED <<current_audio, next_audio, current_position, is_playing,
                   stream>>

StartCrossfade ==
    /\ current_position < MaxPosition
    /\ start_crossfade
    /\ UNCHANGED notEngineVars

\* get_playback_info()
PlaybackInfo ==
    IF current_audio = None
    THEN [playing |-> FALSE]
    ELSE
        LET total_samples == PyLen(current_audio)
        IN  [playing |-> is_playing,
             progress |-> IF total_samples > 0
                          THEN Rat(current_position, total_samples)
                          ELSE Zero,
             remaining_time |-> Rat(total_samples - current_position, sample_rate),
             crossfading |-> is_crossfading,
             next_prepared |-> next_audio # None]

\* get_playback_info(): the mixer is only read
get_playback_info ==
    /\ call' = [op |-> "get_playback_info", args |-> <<>>, ret |-> PlaybackInfo]
    /\ UNCHANGED <<current_audio, next_audio, current_position, is_crossfading,
                   crossfade_position, is_playing, stream>>
    /\ UNCHANGED historyVars

GetPlaybackInfo ==
    /\ get_playback_info
    /\ UNCHANGED notEngineVars

\* stop(): a stream that was opened is stopped and closed
stop ==
    /\ is_playing' = FALSE
    /\ stream' = IF stream = "none" THEN "none" ELSE "closed"
    /\ call' = [op |-> "stop", args |-> <<>>, ret |-> None]
    /\ UNCHANGED <<current_audio, next_audio, current_position, is_crossfading,
                   crossfade_position>>
    /\ Disarm

Stop ==
    /\ stop
    /\ UNCHANGED notEngineVars

Next ==
    \/ SetupStream
    \/ AudioCallback
    \/ PlaySong
    \/ PrepareNextSong
    \/ StartCrossfade
    \/ GetPlaybackInfo
    \/ Stop

Init == EngineInit /\ ModelIdle /\ SolverIdle /\ PlayerIdle /\ LockIdle

Spec == Init /\ [][Next]_vars

-----------------------------------------------------------------------------
(* The solver as a state machine: TSPSolver(songs).solve()                 *)

MaxSongs == 5

\* SongMetadata records the analyzer can supply (path, bpm, key, energy)
SongLibrary ==
    { [path |-> "stems/a", bpm |-> 100, key |-> "8A", energy |-> Rat(1, 20)],
      [path |-> "stems/b", bpm |-> 52,  key |-> "8B", energy |-> Rat(1, 20)],
      [path |-> "stems/c", bpm |-> 150, key |-> "2B", energy |-> Rat(1, 5)] }

SongLists == UNION { [1..k -> SongLibrary] : k \in 0..MaxSongs }

\* "start_points = list(range(min(5, self.n)))": the starts solve tries
max_start_points == 5

\* lists with more songs than solve tries starts: one song repeated and two
\* more songs at the end
LongLists ==
    { songlist \in [1..(max_start_points + 1) -> SongLibrary] :
        \A i \in 1..(max_start_points - 1) : songlist[i] = songlist[1] }

\* Four tracks with tempos 120, 122, 90, 125 and one energy: tracks 0 and 1
\* share key key01, every other pair of tracks is at key distance 1.0
ScenarioKeys == {"8A", "2A", "2B", "1B", "5B", "", "8C"}
ScenarioEnergies == {Rat(1, 20), Rat(1, 5)}
ScenarioSongs(key01, key2, key3, energy) ==
    << [path |-> "stems/t0", bpm |-> 120, key |-> key01, energy |-> energy],
       [path |-> "stems/t1", bpm |-> 122, key |-> key01, energy |-> energy],
       [path |-> "stems/t2", bpm |-> 90,  key |-> key2,  energy |-> energy],
       [path |-> "stems/t3", bpm |-> 125, key |-> key3,  energy |-> energy] >>

ScenarioLists ==
    { ScenarioSongs(key01, key2, key3, energy) :
        key01 \in ScenarioKeys, key2 \in ScenarioKeys, key3 \in ScenarioKeys,
        energy \in ScenarioEnergies }

\* key distance 1.0 for every pair of tracks but tracks 0 and 1
ScenarioIncompatible(songlist) ==
    \A i \in 1..Len(songlist), j \in 1..Len(songlist) :
        (i < j /\ <<i, j>> # <<1, 2>>) =>
            key_distance(songlist[i].key, songlist[j].key) = One

Scenarios == { songlist \in ScenarioLists : ScenarioIncompatible(songlist) }

SolverInit ==
    /\ songs \in SongLists \cup Scenarios \cup LongLists
    /\ n = 0 /\ distance_matrix = <<>> /\ pc = "init"
    /\ start = 0 /\ nn_tour = <<>> /\ opt_tour = <<>> /\ opt_best_tour = <<>>
    /\ opt_best_distance = Zero /\ iteration = 0 /\ opt_accepted = <<>>
    /\ best_tour = None
    /\ best_distance = inf /\ result = None

\* TSPSolver.__init__
TSPSolverInit ==
    /\ pc = "init"
    /\ n' = Len(songs)
    /\ distance_matrix' = _build_distance_matrix(songs)
    /\ pc' = "ready"
    /\ UNCHANGED notSolverVars
    /\ UNCHANGED <<songs, start, nn_tour, opt_tour, opt_best_tour,
                   opt_best_distance, iteration, opt_accepted, best_tour,
                   best_distance, result>>

\* solve: "if self.n <= 1: return list(range(self.n))"
SolveTrivial ==
    /\ pc = "ready" /\ n <= 1
    /\ result' = Some(Range(n))
    /\ pc' = "done"
    /\ UNCHANGED notSolverVars
    /\ UNCHANGED <<songs, n, distance_matrix, start, nn_tour, opt_tour,
                   opt_best_tour, opt_best_distance, iteration, opt_accepted,
                   best_tour, best_distance>>

\* solve: best_tour = None; best_distance = inf; start_points = range(min(5, n))
SolveBegin ==
    /\ pc = "ready" /\ n > 1
    /\ best_tour' = None
    /\ best_distance' = inf
    /\ start' = 0
    /\ pc' = "nearest"
    /\ UNCHANGED notSolverVars
    /\ UNCHANGED <<songs, n, distance_matrix, nn_tour, opt_tour, opt_best_tour,
                   opt_best_distance, iteration, opt_accepted, result>>

\* solve: tour = self.solve_nearest_neighbor(start), then the entry of
\* improve_2opt(tour): best_tour = tour[:]; best_distance = its distance
SolveNearestNeighbor ==
    /\ pc = "nearest"
    /\ LET tour == solve_nearest_neighbor(distance_matrix, n, start)
       IN  /\ nn_tour' = tour
           /\ opt_tour' = tour
           /\ opt_best_tour' = tour
           /\ opt_best_distance' = _calculate_tour_distance(distance_matrix, tour)
    /\ iteration' = 0
    /\ opt_accepted' = <<>>
    /\ pc' = "2opt"
    /\ UNCHANGED notSolverVars
    /\ UNCHANGED <<songs, n, distance_matrix, start, best_tour, best_distance, result>>

Improve2optAccept_keeps_first ==
    /\ pc = "2opt" /\ iteration < max_iterations
    /\ ScanRound(distance_matrix, opt_tour, opt_best_distance) # None
    /\ LET new_tour == ScanRound(distance_matrix, opt_tour, opt_best_distance)[1]
       IN  /\ opt_best_tour' = opt_best_tour
           /\ opt_best_distance' = _calculate_tour_distance(distance_matrix, new_tour)
           /\ opt_tour' = new_tour
    /\ iteration' = iteration + 1
    /\ opt_accepted' = Append(opt_accepted, ScanRound(distance_matrix, opt_tour, opt_best_distance)[1])
    /\ UNCHANGED notSolverVars
    /\ UNCHANGED <<songs, n, distance_matrix, pc, start, nn_tour, best_tour,
                   best_distance, result>>

\* improve_2opt: one round of "for iteration in range(max_iterations)" that
\* finds an improving reversal and accepts it
Improve2optAccept ==
    /\ pc = "2opt" /\ iteration < max_iterations
    /\ ScanRound(distance_matrix, opt_tour, opt_best_distance) # None
    /\ LET new_tour == ScanRound(distance_matrix, opt_tour, opt_best_distance)[1]
       IN  /\ opt_best_tour' = new_tour
           /\ opt_best_distance' = _calculate_tour_distance(distance_matrix, new_tour)
           /\ opt_tour' = new_tour
    /\ iteration' = iteration + 1
    /\ opt_accepted' = Append(opt_accepted, ScanRound(distance_matrix, opt_tour, opt_best_distance)[1])
    /\ UNCHANGED notSolverVars
    /\ UNCHANGED <<songs, n, distance_matrix, pc, start, nn_tour, best_tour,
                   best_distance, result>>

\* improve_2opt returns best_tour (a round without improvement, or the
\* rounds exhausted); solve keeps it if it is shorter than the best so far
\* and goes to the next start, or returns best_tour
Improve2optReturn ==
    /\ pc = "2opt"
    /\ \/ iteration >= max_iterations
       \/ ScanRound(distance_matrix, opt_tour, opt_best_distance) = None
    /\ LET distance == _calculate_tour_distance(distance_matrix, opt_best_tour)
           keep == LessThan(distance, best_distance)
           new_best_tour == IF keep THEN Some(opt_best_tour) ELSE best_tour
           last == start + 1 >= PyMin(max_start_points, n)
       IN  /\ best_tour' = new_best_tour
           /\ best_distance' = IF keep THEN distance ELSE best_distance
           /\ IF last
              THEN /\ result' = new_best_tour
                   /\ pc' = "done"
                   /\ start' = start
              ELSE /\ result' = result
                   /\ pc' = "nearest"
                   /\ start' = start + 1
    /\ UNCHANGED notSolverVars
    /\ UNCHANGED <<songs, n, distance_matrix, nn_tour, opt_tour, opt_best_tour,
                   opt_best_distance, iteration, opt_accepted>>

SolverNext ==
    \/ TSPSolverInit
    \/ SolveTrivial
    \/ SolveBegin
    \/ SolveNearestNeighbor
    \/ Improve2optAccept
    \/ Improve2optReturn

SolverSpecInit == SolverInit /\ ModelIdle /\ EngineInit /\ PlayerIdle /\ LockIdle

SpecSolver == SolverSpecInit /\ [][SolverNext]_vars

-----------------------------------------------------------------------------
(* The compatibility model called on its own: the pure functions applied   *)
(* to arguments drawn from bounded sets.                                   *)

\* key strings: the 24 Camelot codes and strings that are no code
KeyCodes == DOMAIN WHEEL_POSITIONS \cup {"0A", "13B", "8C", ""}

\* tempos, with zero and a negative value
BpmValues == {-120, 0, 52, 90, 100, 120, 121, 122, 125, 137, 240}

\* TSPAutoDJPlayer._calculate_song_compatibility(song1, song2)
_calculate_song_compatibility(song1, song2) ==
    LET key_dist == key_distance(song1.key, song2.key)
        key_score == RSub(One, key_dist)
        bpm_dist == bpm_distance(song1.bpm, song2.bpm, harmonic_threshold_default)
        bpm_score == RSub(One, bpm_dist)
        energy_diff == RAbs(RSub(song1.energy, song2.energy))
        energy_score == RMax(Zero, RSub(One, RDiv(energy_diff, Rat(1, 5))))
        compatibility ==
            RAdd(RAdd(RMul(key_score, Rat(1, 2)), RMul(bpm_score, Rat(7, 20))),
                 RMul(energy_score, Rat(3, 20)))
    IN  RMax(Zero, RMin(One, compatibility))

CallSongCompatibility ==
    /\ \E song1 \in SongLibrary, song2 \in SongLibrary :
          call' = [op |-> "_calculate_song_compatibility",
                   args |-> <<song1, song2>>,
                   ret |-> _calculate_song_compatibility(song1, song2)]
    /\ UNCHANGED notModelVars

CallKeyDistance ==
    /\ \E key1 \in KeyCodes, key2 \in KeyCodes :
          call' = [op |-> "key_distance", args |-> <<key1, key2>>,
                   ret |-> key_distance(key1, key2)]
    /\ UNCHANGED notModelVars

CallBpmDistance ==
    /\ \E bpm1 \in BpmValues, bpm2 \in BpmValues :
          call' = [op |-> "bpm_distance", args |-> <<bpm1, bpm2>>,
                   ret |-> bpm_distance(bpm1, bpm2, harmonic_threshold_default)]
    /\ UNCHANGED notModelVars

ModelNext ==
    \/ CallKeyDistance
    \/ CallBpmDistance
    \/ CallSongCompatibility

ModelSpecInit == ModelIdle /\ SolverIdle /\ EngineInit /\ PlayerIdle /\ LockIdle

SpecModel == ModelSpecInit /\ [][ModelNext]_vars

-----------------------------------------------------------------------------
(* TSPAutoDJPlayer.play_tour_with_audio: the tour thread, the render        *)
(* callback of the stream running beside it.                                *)

\* the songs of a tour: one whose stems load as ones, one whose stems load as
\* zeros and one whose directory is missing
PlayerLibrary ==
    { [path |-> "stems/ones", bpm |-> 100, key |-> "8A", energy |-> Rat(1, 20)],
      [path |-> "stems/zeros", bpm |-> 110, key |-> "2A", energy |-> Rat(3, 10)],
      [path |-> "stems/missing", bpm |-> 52, key |-> "8B", energy |-> Rat(1, 20)] }

MaxTour == 3

\* a tour visits each of its songs once
Tours ==
    UNION { { t \in [1..k -> PlayerLibrary] :
                \A a \in 1..k, b \in 1..k : a # b => t[a] # t[b] } : k \in 0..MaxTour }

PlayerInit ==
    /\ tour_songs \in Tours /\ tour_pc = "start" /\ tour_i = 0
    /\ crossfade_start = Zero /\ crossfade_triggered = FALSE
    /\ info = [playing |-> FALSE] /\ attempted = <<>>

\* play_tour_with_audio: "if not self.tour: return"
PlayTourEmpty ==
    /\ tour_pc = "start" /\ tour_songs = <<>>
    /\ tour_pc' = "done"
    /\ UNCHANGED <<tour_songs, tour_i, crossfade_start, crossfade_triggered,
                   info, attempted>>
    /\ UNCHANGED <<modelVars, solverVars, engineVars, historyVars, lockVars>>

\* play_tour_with_audio: setup_stream() and stream.start_stream(); opening
\* the stream can fail, and then the method returns
PlayTourSetup ==
    /\ tour_pc = "start" /\ tour_songs # <<>>
    /\ \E opened \in BOOLEAN :
          /\ stream' = IF opened THEN "active" ELSE "none"
          /\ call' = [op |-> "setup_stream", args |-> <<>>, ret |-> opened]
          /\ tour_pc' = IF opened THEN "play" ELSE "done"
    /\ UNCHANGED <<current_audio, next_audio, current_position, is_crossfading,
                   crossfade_position, is_playing>>
    /\ UNCHANGED <<tour_songs, tour_i, crossfade_start, crossfade_triggered,
                   info, attempted>>
    /\ UNCHANGED <<solverVars, historyVars, lockVars>>

TourPlaySong_aborts_on_failure ==
    /\ tour_pc = "play" /\ tour_i < Len(tour_songs)
    /\ LET song == tour_songs[tour_i + 1]
       IN  /\ play_song(song.path)
           /\ attempted' = Append(attempted, [position |-> tour_i, ok |-> call'.ret])
           /\ IF ~call'.ret
              THEN /\ tour_i' = Len(tour_songs)
                   /\ UNCHANGED <<tour_pc, crossfade_start>>
              ELSE IF tour_i + 1 < Len(tour_songs)
              THEN LET next_song == tour_songs[tour_i + 2]
                       compatibility == _calculate_song_compatibility(song, next_song)
                   IN  /\ crossfade_start' =
                              RAdd(Rat(4, 5), RMul(compatibility, Rat(3, 20)))
                       /\ tour_pc' = "prepare"
                       /\ UNCHANGED tour_i
              ELSE /\ tour_pc' = "wait"
                   /\ UNCHANGED <<tour_i, crossfade_start>>
    /\ UNCHANGED <<tour_songs, crossfade_triggered, info>>
    /\ UNCHANGED <<solverVars, lockVars>>

TourPlaySong_wraps_to_first ==
    /\ tour_pc = "play" /\ tour_i < Len(tour_songs)
    /\ LET song == tour_songs[tour_i + 1]
       IN  /\ play_song(song.path)
           /\ attempted' = Append(attempted, [position |-> tour_i, ok |-> call'.ret])
           /\ IF ~call'.ret
              THEN /\ tour_i' = tour_i + 1
                   /\ UNCHANGED <<tour_pc, crossfade_start>>
              ELSE IF tour_i + 1 <= Len(tour_songs)
              THEN LET next_song == tour_songs[((tour_i + 1) % Len(tour_songs)) + 1]
                       compatibility == _calculate_song_compatibility(song, next_song)
                   IN  /\ crossfade_start' =
                              RAdd(Rat(4, 5), RMul(compatibility, Rat(3, 20)))
                       /\ tour_pc' = "prepare"
                       /\ UNCHANGED tour_i
              ELSE /\ tour_pc' = "wait"
                   /\ UNCHANGED <<tour_i, crossfade_start>>
    /\ UNCHANGED <<tour_songs, crossfade_triggered, info>>
    /\ UNCHANGED <<solverVars, lockVars>>

\* _run_audio_tour: one pass of the loop body up to the call of
\* _monitor_and_crossfade or _wait_for_song_completion
TourPlaySong ==
    /\ tour_pc = "play" /\ tour_i < Len(tour_songs)
    /\ LET song == tour_songs[tour_i + 1]
       IN  /\ play_song(song.path)
           /\ attempted' = Append(attempted, [position |-> tour_i, ok |-> call'.ret])
           /\ IF ~call'.ret
              THEN /\ tour_i' = tour_i + 1
                   /\ UNCHANGED <<tour_pc, crossfade_start>>
              ELSE IF tour_i + 1 < Len(tour_songs)
              THEN LET next_song == tour_songs[tour_i + 2]
                       compatibility == _calculate_song_compatibility(song, next_song)
                   IN  /\ crossfade_start' =
                              RAdd(Rat(4, 5), RMul(compatibility, Rat(3, 20)))
                       /\ tour_pc' = "prepare"
                       /\ UNCHANGED tour_i
              ELSE /\ tour_pc' = "wait"
                   /\ UNCHANGED <<tour_i, crossfade_start>>
    /\ UNCHANGED <<tour_songs, crossfade_triggered, info>>
    /\ UNCHANGED <<solverVars, lockVars>>

\* _monitor_and_crossfade: prepare_next_song(next_song.path) and
\* crossfade_triggered = False
MonitorPrepareNext ==
    /\ tour_pc = "prepare"
    /\ prepare_next_song(tour_songs[tour_i + 2].path)
    /\ crossfade_triggered' = FALSE
    /\ tour_pc' = "poll"
    /\ UNCHANGED <<tour_songs, tour_i, crossfade_start, info, attempted>>
    /\ UNCHANGED <<solverVars, lockVars>>

\* _monitor_and_crossfade: info = self.mixer.get_playback_info()
MonitorPoll ==
    /\ tour_pc = "poll"
    /\ get_playback_info
    /\ info' = PlaybackInfo
    /\ tour_pc' = "decide"
    /\ UNCHANGED <<tour_songs, tour_i, crossfade_start, crossfade_triggered,
                   attempted>>
    /\ UNCHANGED <<solverVars, lockVars>>

MonitorDecide_without_safety_break ==
    /\ tour_pc = "decide"
    /\ IF ~info.playing
       THEN /\ tour_i' = tour_i + 1
            /\ tour_pc' = "play"
            /\ UNCHANGED <<call, engineVars, historyVars, crossfade_triggered>>
       ELSE /\ IF ~crossfade_triggered /\ RLe(crossfade_start, info.progress)
               THEN /\ start_crossfade
                    /\ crossfade_triggered' = call'.ret
               ELSE UNCHANGED <<call, engineVars, historyVars, crossfade_triggered>>
            /\ IF crossfade_triggered' /\ ~info.crossfading
               THEN /\ tour_i' = tour_i + 1
                    /\ tour_pc' = "play"
               ELSE /\ tour_pc' = "poll"
                    /\ UNCHANGED tour_i
    /\ UNCHANGED <<tour_songs, crossfade_start, info, attempted>>
    /\ UNCHANGED <<solverVars, lockVars>>

\* _monitor_and_crossfade: the rest of the loop body, with the info polled:
\* the trigger of start_crossfade, the three breaks, and the sleep
MonitorDecide ==
    /\ tour_pc = "decide"
    /\ IF ~info.playing
       THEN /\ tour_i' = tour_i + 1
            /\ tour_pc' = "play"
            /\ UNCHANGED <<call, engineVars, historyVars, crossfade_triggered>>
       ELSE /\ IF ~crossfade_triggered /\ RLe(crossfade_start, info.progress)
               THEN /\ start_crossfade
                    /\ crossfade_triggered' = call'.ret
               ELSE UNCHANGED <<call, engineVars, historyVars, crossfade_triggered>>
            /\ IF \/ crossfade_triggered' /\ ~info.crossfading
                  \/ RLt(info.remaining_time, Rat(1, 2))
               THEN /\ tour_i' = tour_i + 1
                    /\ tour_pc' = "play"
               ELSE /\ tour_pc' = "poll"
                    /\ UNCHANGED tour_i
    /\ UNCHANGED <<tour_songs, crossfade_start, info, attempted>>
    /\ UNCHANGED <<solverVars, lockVars>>

\* _wait_for_song_completion: one pass of its loop
WaitPoll ==
    /\ tour_pc = "wait"
    /\ get_playback_info
    /\ info' = PlaybackInfo
    /\ IF ~info'.playing \/ RLt(info'.remaining_time, Rat(1, 10))
       THEN /\ tour_i' = tour_i + 1
            /\ tour_pc' = "play"
       ELSE UNCHANGED <<tour_i, tour_pc>>
    /\ UNCHANGED <<tour_songs, crossfade_start, crossfade_triggered, attempted>>
    /\ UNCHANGED <<solverVars, lockVars>>

\* the loop of _run_audio_tour is over: play_tour_with_audio's "finally"
\* runs mixer.cleanup(), which stops the mixer
PlayTourCleanup ==
    /\ tour_pc = "play" /\ tour_i >= Len(tour_songs)
    /\ stop
    /\ tour_pc' = "done"
    /\ UNCHANGED <<tour_songs, tour_i, crossfade_start, crossfade_triggered,
                   info, attempted>>
    /\ UNCHANGED <<solverVars, lockVars>>

PlayerNext ==
    \/ PlayTourEmpty
    \/ PlayTourSetup
    \/ TourPlaySong
    \/ MonitorPrepareNext
    \/ MonitorPoll
    \/ MonitorDecide
    \/ WaitPoll
    \/ PlayTourCleanup
    \/ AudioCallback

PlayerSpecInit == PlayerInit /\ ModelIdle /\ SolverIdle /\ EngineInit /\ LockIdle

SpecPlayer == PlayerSpecInit /\ [][PlayerNext]_vars

-----------------------------------------------------------------------------
(* Claims about the distance matrix and the compatibility model            *)

MatrixBuilt == pc \notin {"idle", "init"}

\* C1 (as claimed): the distance matrix built by TSPSolver has an all-zero
\* diagonal and is symmetric, matrix[i][j] = matrix[j][i] for all i, j.
C1_MatrixZeroDiagonalSymmetric ==
    MatrixBuilt =>
        \A i \in 0..(n - 1), j \in 0..(n - 1) :
            /\ distance_matrix[i][i] = Zero
            /\ distance_matrix[i][j] = distance_matrix[j][i]

IsBpmCall(bpm1, bpm2) == call.op = "bpm_distance" /\ call.args = <<bpm1, bpm2>>

\* C2 (as claimed): with the default tolerance bpm_distance(100, 137) is
\* exactly 1.0.
C2_Bpm100_137IsOne == IsBpmCall(100, 137) => call.ret = One

\* C2 (amended): with the default tolerance 0.08, bpm_distance(120, 120) is 0,
\* bpm_distance(120, 240) is 0, bpm_distance(120, 121) is (121/120 - 1)/0.08,
\* and bpm_distance(100, 137) is the 3:4 harmonic value
\* (|100/137 - 3/4| / (3/4)) / 0.08 = 275/822, which is below 1.0.
C2_BpmExamples ==
    /\ IsBpmCall(120, 120) => call.ret = Zero
    /\ IsBpmCall(120, 240) => call.ret = Zero
    /\ IsBpmCall(120, 121) =>
          call.ret = RDiv(RSub(Rat(121, 120), One), Rat(8, 100))
    /\ IsBpmCall(100, 137) => call.ret = <<275, 822>> /\ RLt(call.ret, One)

C2_Witness == IsBpmCall(100, 137)

IsKeyCall == call.op = "key_distance"

\* C3: key_distance is symmetric, is 0 for identical codes and lies in
\* [0, 1], for every pair of the 24 Camelot codes and unknown strings.
C3_KeyDistanceSymmetricZeroBounded ==
    IsKeyCall =>
        /\ call.ret = key_distance(call.args[2], call.args[1])
        /\ call.args[1] = call.args[2] => call.ret = Zero
        /\ RLe(Zero, call.ret) /\ RLe(call.ret, One)

C3_Witness == IsKeyCall /\ call.args = <<"1A", "7B">>

\* the code string of wheel number num (1..12) and mode letter ("A", "B")
Numeral == <<"1", "2", "3", "4", "5", "6", "7", "8", "9", "10", "11", "12">>
CamelotCode(num, mode) == Numeral[num] \o mode
CamelotNumbers == 1..12
CamelotModes == {"A", "B"}
ValidCodes == { CamelotCode(num, mode) : num \in CamelotNumbers, mode \in CamelotModes }

\* C4: for two distinct valid codes key_distance is min(1, c/6 + p), c the
\* circular distance (mod 12) of the wheel numbers and p = 0.2 when the mode
\* letters differ, else 0; when one of two distinct codes is no Camelot code
\* the result is 1.0.
C4_KeyDistanceFormula ==
    IsKeyCall /\ call.args[1] # call.args[2] =>
        /\ \A n1 \in CamelotNumbers, n2 \in CamelotNumbers,
              m1 \in CamelotModes, m2 \in CamelotModes :
              call.args = <<CamelotCode(n1, m1), CamelotCode(n2, m2)>> =>
                  LET c == IF Abs(n1 - n2) <= 6 THEN Abs(n1 - n2) ELSE 12 - Abs(n1 - n2)
                      p == IF m1 # m2 THEN Rat(2, 10) ELSE Zero
                      v == RAdd(Rat(c, 6), p)
                  IN  call.ret = IF RLt(One, v) THEN One ELSE v
        /\ (call.args[1] \notin ValidCodes \/ call.args[2] \notin ValidCodes)
              => call.ret = One

C4_Witness == IsKeyCall /\ call.args = <<"2A", "11A">> /\ call.ret = Rat(1, 2)

-----------------------------------------------------------------------------
(* Claims about the tour solver                                            *)

IsPermutation(tour, size) ==
    /\ Len(tour) = size
    /\ \A idx \in 0..(size - 1) : Cardinality({p \in 1..Len(tour) : tour[p] = idx}) = 1

\* C5: solve returns a list holding each index 0..N-1 exactly once; for
\* N = 0 the empty list and for N = 1 the list [0].
C5_SolveReturnsPermutation ==
    pc = "done" =>
        /\ result # None
        /\ IsPermutation(result[1], Len(songs))
        /\ Len(songs) = 0 => result[1] = <<>>
        /\ Len(songs) = 1 => result[1] = <<0>>

C5_Witness == pc = "done" /\ Len(songs) = MaxSongs /\ iteration > 0

\* C6: for every start, the cyclic distance of the tour improve_2opt holds
\* as its best is at most that of the nearest-neighbour tour it was given.
C6_TwoOptNeverWorse ==
    pc \in {"2opt", "nearest", "done"} =>
        RLe(_calculate_tour_distance(distance_matrix, opt_best_tour),
            _calculate_tour_distance(distance_matrix, nn_tour))

C6_Witness ==
    /\ pc = "nearest" /\ start > 0
    /\ RLt(_calculate_tour_distance(distance_matrix, opt_best_tour),
           _calculate_tour_distance(distance_matrix, nn_tour))

-----------------------------------------------------------------------------
(* Claims about the crossfade engine                                       *)

IsCallback == call.op = "_audio_callback"

\* C7: the render callback returns a block of exactly frame_count frames,
\* for every frame_count and in every engine state.
C7_RenderReturnsFrameCount == IsCallback => Len(call.ret) = call.args[1]

\* a render call in which the crossfade completed part-way through the block
C7_Witness ==
    /\ IsCallback /\ xf_armed /\ ~is_crossfading /\ xf_frames = crossfade_samples
    /\ current_position < call.args[1]

\* C8 (as claimed): after a successful play_song the engine has the new
\* buffer as current, read cursor 0, no staged next buffer, and is Playing
\* (is_playing, not crossfading).
C8_PlaySongEntersPlaying ==
    call.op = "play_song" /\ call.ret = TRUE =>
        /\ current_audio = load_song_stems(call.args[1])
        /\ current_position = 0
        /\ next_audio = None
        /\ is_playing
        /\ ~is_crossfading

\* C9 (as claimed): crossfading from a current buffer of ones to a next
\* buffer of zeros, the frame at the middle position of the crossfade window
\* is mixed with weights 0.5 and 0.5, however the frames are split into
\* render calls: the weight of a frame is linear in its position in the window.
C9_MidpointFrameHalfWeights ==
    ( /\ IsCallback /\ xf_armed /\ is_crossfading /\ is_playing
      /\ call.args[1] <= xf_frames
      /\ next_audio = Some(Zeros(TrackLen))
      /\ current_position <= PyLen(current_audio)
      /\ \A k \in 1..call.args[1] :
            current_audio[1][current_position - call.args[1] + k] = One )
    => \A k \in 1..call.args[1] :
          2 * (xf_frames - call.args[1] + k - 1) = crossfade_samples
              => call.ret[k] = SoftLimit(RMul(master_volume, Rat(1, 2)))

\* C10: after a successful start_crossfade followed by render calls only, the
\* engine is Crossfading exactly as long as fewer than crossfade_samples
\* frames have been crossfaded; right after the call in which that count is
\* reached it is Playing, current is the buffer that was staged as next, next
\* is unset and the crossfade cursor is 0.
C10_CrossfadeCompletesAtWindow ==
    xf_armed =>
        /\ xf_frames <= crossfade_samples
        /\ is_crossfading <=> xf_frames < crossfade_samples
        /\ ~is_crossfading =>
              /\ is_playing
              /\ current_audio = xf_staged
              /\ next_audio = None
              /\ crossfade_position = 0

\* the window was rendered in several calls and the swap has happened
C10_Witness ==
    /\ xf_armed /\ ~is_crossfading /\ xf_frames = crossfade_samples
    /\ IsCallback /\ call.args[1] < crossfade_samples
    /\ current_audio = xf_staged /\ xf_staged # None

\* C11: start_crossfade called with no next buffer staged returns False and
\* leaves current buffer, read cursor, next, crossfading flag, crossfade
\* cursor and playing flag unchanged; called with a staged next it returns
\* True, sets the crossfade cursor to 0 and enters Crossfading, leaving the
\* buffers, the read cursor and the playing flag alone.
C11_StartCrossfadeContract ==
    [][call'.op = "start_crossfade" =>
          IF next_audio = None
          THEN /\ call'.ret = FALSE
               /\ UNCHANGED <<current_audio, current_position, next_audio,
                              is_crossfading, crossfade_position, is_playing>>
          ELSE /\ call'.ret = TRUE
               /\ crossfade_position' = 0
               /\ is_crossfading'
               /\ UNCHANGED <<current_audio, current_position, next_audio,
                              is_playing>>]_vars

\* start_crossfade refused while a track is part-way played
C11_Witness ==
    /\ call.op = "start_crossfade" /\ call.ret = FALSE
    /\ next_audio = None /\ current_audio # None /\ is_playing
    /\ current_position > 0 /\ ~is_crossfading

-----------------------------------------------------------------------------
(* Claims about the four-track scenario and degenerate tempos             *)

\* solve_nearest_neighbor(0) has returned for a four-track scenario
IsScenarioCall == songs \in Scenarios /\ pc = "2opt" /\ start = 0

\* the bpm distance from track 0 of the scenario to its track j (0-based)
ScenarioBpmDistance(j) ==
    bpm_distance(songs[1].bpm, songs[j + 1].bpm, harmonic_threshold_default)

\* C12 (as claimed): in the four-track scenario solve_nearest_neighbor(0)
\* visits index 1 second, and index 1 is the track with the smallest bpm
\* distance from track 0.
C12_SecondIsSmallestBpmDistance ==
    IsScenarioCall =>
        /\ nn_tour[2] = 1
        /\ \A j \in 2..3 : RLe(ScenarioBpmDistance(1), ScenarioBpmDistance(j))

\* C12 (amended): in the four-track scenario solve_nearest_neighbor(0) visits
\* index 1 second, index 1 being the track with the smallest composite
\* distance from track 0; the smallest bpm distance from track 0 is that of
\* index 2 (120:90 is the 4:3 ratio, distance 0), below the 5/24 of index 1.
C12_SecondIsSmallestCompositeDistance ==
    IsScenarioCall =>
        /\ nn_tour[1] = 0
        /\ nn_tour[2] = 1
        /\ \A j \in 2..3 : RLt(distance_matrix[0][1], distance_matrix[0][j])
        /\ ScenarioBpmDistance(2) = Zero
        /\ ScenarioBpmDistance(1) = Rat(5, 24)
        /\ \A j \in {1, 3} : RLt(ScenarioBpmDistance(2), ScenarioBpmDistance(j))

C12_Witness ==
    /\ IsScenarioCall /\ nn_tour[2] = 1 /\ iteration = 0
    /\ songs[1].key = "8A" /\ songs[3].key = "2A"

\* C13 (as claimed): for every pair of tempos, zero and negative values
\* included, bpm_distance returns a value in [0, 1], and a zero or negative
\* tempo gives the maximum distance 1.0.
C13_BpmDistanceInUnitInterval ==
    call.op = "bpm_distance" =>
        /\ RLe(Zero, call.ret) /\ RLe(call.ret, One)
        /\ (call.args[1] <= 0 \/ call.args[2] <= 0) => call.ret = One

C15_CompatibilityIsOneMinusDistance ==
    call.op = "_calculate_song_compatibility" =>
        LET song1 == call.args[1]
            song2 == call.args[2]
            energyDistance ==
                RMin(RDiv(RAbs(RSub(song1.energy, song2.energy)), Rat(1, 10)), One)
        IN  /\ call.ret =
                 RAdd(RAdd(RMul(Rat(1, 2), RSub(One, key_distance(song1.key, song2.key))),
                           RMul(Rat(7, 20),
                                RSub(One, bpm_distance(song1.bpm, song2.bpm,
                                                       harmonic_threshold_default)))),
                      RMul(Rat(3, 20), RSub(One, energyDistance)))
            /\ call.ret = RSub(One, _calculate_distance(song1, song2))

\* C17 (as claimed): after stop() the engine is Idle: the current and next
\* buffers are unset, the crossfading flag and both cursors are reset, and
\* get_playback_info reports not playing.
C17_StopEntersIdle ==
    call.op = "stop" =>
        /\ current_audio = None /\ next_audio = None
        /\ ~is_crossfading /\ crossfade_position = 0 /\ current_position = 0
        /\ ~is_playing /\ PlaybackInfo.playing = FALSE

\* C20: the tour solve returns has a cyclic distance no greater than that of
\* improve_2opt(solve_nearest_neighbor(s)) for every start s in
\* 0..min(5, N)-1, and so no greater than that of the plain nearest-neighbour
\* tour from each of those starts.
C20_SolveBestOverStarts ==
    pc = "done" /\ n > 1 =>
        \A s \in 0..(PyMin(5, n) - 1) :
            LET nearest == solve_nearest_neighbor(distance_matrix, n, s)
                improved == improve_2opt(distance_matrix, nearest)
                returned == _calculate_tour_distance(distance_matrix, result[1])
            IN  /\ RLe(returned, _calculate_tour_distance(distance_matrix, improved))
                /\ RLe(returned, _calculate_tour_distance(distance_matrix, nearest))

\* solve has returned for more than 5 songs and one of the 5 starts gave a
\* strictly longer tour
C20_Witness ==
    /\ pc = "done" /\ n > 5
    /\ \E s \in 0..(PyMin(5, n) - 1) :
          RLt(_calculate_tour_distance(distance_matrix, result[1]),
              _calculate_tour_distance(distance_matrix,
                  improve_2opt(distance_matrix,
                               solve_nearest_neighbor(distance_matrix, n, s))))

-----------------------------------------------------------------------------
(* Claims about the tour player                                            *)

\* the tour thread is inside _monitor_and_crossfade
Monitoring == tour_pc \in {"prepare", "poll", "decide"}

\* C16: when play_song fails for a tour position the engine (current buffer,
\* cursors, next, crossfading flag, playing flag) is left as it was and the
\* player goes on to the next position: play_song is attempted for every
\* position of the tour, once each and in order, whatever failed before.
C16_PlaySongFailureSkips ==
    /\ [](/\ \A k \in 1..Len(attempted) : attempted[k].position = k - 1
          /\ tour_pc = "play" => Len(attempted) = tour_i
          /\ (Monitoring \/ tour_pc = "wait") =>
                /\ Len(attempted) = tour_i + 1
                /\ attempted[tour_i + 1].ok
          /\ (tour_pc = "done" /\ call.op = "stop") =>
                Len(attempted) = Len(tour_songs))
    /\ [][(attempted' # attempted /\ ~call'.ret) =>
             /\ call'.op = "play_song"
             /\ UNCHANGED <<current_audio, current_position, next_audio,
                            is_crossfading, crossfade_position, is_playing>>
             /\ tour_pc' = "play"
             /\ tour_i' = tour_i + 1]_vars

\* position 1 failed after position 0 had played, and position 2 plays
C16_Witness ==
    /\ Len(attempted) = 3
    /\ attempted[1].ok /\ ~attempted[2].ok /\ attempted[3].ok
    /\ is_playing /\ current_audio = load_song_stems(tour_songs[3].path)

\* C18: at the last tour position the player stages no next buffer and
\* starts no crossfade: it is never inside the monitor there, no call of
\* prepare_next_song or start_crossfade is made, the buffer of the first
\* tour song is never staged as next, and the player leaves the wait only
\* when the mixer is not playing or the remaining time is below 0.1 s, and
\* then finishes.
C18_LastTrackNoCrossfade ==
    /\ [](/\ Monitoring => tour_i + 1 < Len(tour_songs)
          /\ (Len(tour_songs) > 1 /\ next_audio # None) =>
                next_audio # load_song_stems(tour_songs[1].path))
    /\ [][/\ (tour_pc # "start" /\ tour_i >= Len(tour_songs) - 1) =>
                /\ call'.op \notin {"prepare_next_song", "start_crossfade"}
                /\ next_audio' \in {next_audio, None}
                /\ is_crossfading' => is_crossfading
          /\ (tour_pc = "wait" /\ tour_pc' # "wait") =>
                /\ ~info'.playing \/ RLt(info'.remaining_time, Rat(1, 10))
                /\ tour_i' = Len(tour_songs)
                /\ tour_pc' = "play"
          /\ (tour_pc = "play" /\ tour_i >= Len(tour_songs)) =>
                /\ tour_pc' \in {"play", "done"}
                /\ attempted' = attempted]_vars

\* the last of several songs has played to its end and the wait is over
C18_Witness ==
    /\ tour_pc = "play" /\ tour_i = Len(tour_songs) /\ Len(tour_songs) > 1
    /\ attempted[Len(tour_songs)].ok
    /\ info.playing /\ RLt(info.remaining_time, Rat(1, 10))

\* C19 (as claimed): once start_crossfade has succeeded for a pair, the
\* monitor returns (and the player moves on to play_song for the next
\* position) only when the engine has left Crossfading or the remaining time
\* of the current track is below 0.5 s.
C19_MonitorWaitsForCrossfadeEnd ==
    [][(tour_pc = "decide" /\ tour_pc' = "play" /\ crossfade_triggered') =>
          \/ ~is_crossfading'
          \/ /\ current_audio' # None
             /\ 2 * (PyLen(current_audio') - current_position') < sample_rate]_vars

----------------------------------------------------------------------------
\* the tours improve_2opt has held so far: its input and every accepted new_tour
HeldTours == {nn_tour} \cup {opt_accepted[k] : k \in 1..Len(opt_accepted)}

\* t is s with one sub-sequence [i, j) of the scanned neighbourhood reversed
IsScannedReversal(s, t) ==
    \E i \in 1..(Len(s) - 3) : \E j \in (i + 2)..(Len(s) - 1) :
        t = ReverseSegment(s, i, j)

PreviousTour(k) == IF k = 1 THEN nn_tour ELSE opt_accepted[k - 1]

C21_BoundedRounds ==
    pc = "2opt" =>
        /\ iteration <= max_iterations
        /\ Len(opt_accepted) = iteration
        /\ \A k \in 1..Len(opt_accepted) :
               IsScannedReversal(PreviousTour(k), opt_accepted[k])
        /\ opt_best_tour \in HeldTours
        /\ \A t \in HeldTours :
               RLe(_calculate_tour_distance(distance_matrix, opt_best_tour),
                   _calculate_tour_distance(distance_matrix, t))

----------------------------------------------------------------------------
\* improve_2opt has returned and its last round was begun below the cap
ReturnedBelowCap ==
    /\ pc \in {"nearest", "done"}
    /\ opt_best_tour # <<>>
    /\ iteration < max_iterations

----------------------------------------------------------------------------
\* the indices still unvisited when position k of the tour is chosen
UnvisitedBefore(k) == (0..(n - 1)) \ {nn_tour[m] : m \in 1..(k - 1)}

\* u is as near to the predecessor of position k as the index chosen there
TiedAt(k, u) ==
    /\ RLe(distance_matrix[nn_tour[k - 1]][u], distance_matrix[nn_tour[k - 1]][nn_tour[k]])
    /\ RLe(distance_matrix[nn_tour[k - 1]][nn_tour[k]], distance_matrix[nn_tour[k - 1]][u])

\* C23: solve_nearest_neighbor(start) returns a Hamiltonian path that begins
\* with start and in which every later element is an unvisited index at
\* minimum distance from its predecessor; among unvisited indices tied at the
\* minimum the first in iteration order (the smallest index) is chosen.
C23_NearestNeighborGreedyFirstTie ==
    pc = "2opt" =>
        /\ Len(nn_tour) = n
        /\ nn_tour[1] = start
        /\ \A k \in 2..n :
               /\ nn_tour[k] \in UnvisitedBefore(k)
               /\ \A u \in UnvisitedBefore(k) :
                      /\ RLe(distance_matrix[nn_tour[k - 1]][nn_tour[k]],
                             distance_matrix[nn_tour[k - 1]][u])
                      /\ TiedAt(k, u) => nn_tour[k] <= u

\* a tour from a later start in which some choice was a tie between indices
C23_Witness ==
    /\ pc = "2opt"
    /\ start > 0
    /\ \E k \in 2..n : \E u \in UnvisitedBefore(k) : u # nn_tour[k] /\ TiedAt(k, u)

----------------------------------------------------------------------------
\* C29: improve_2opt never moves the first or the last element of the tour
\* (the tour it holds as best and returns agrees with its input at index 0
\* and at index N-1), and the list passed in by the caller keeps its
\* contents throughout the call.
C29_TwoOptKeepsEndsAndInput ==
    /\ [](opt_best_tour # <<>> =>
              /\ Len(opt_best_tour) = Len(nn_tour)
              /\ opt_best_tour[1] = nn_tour[1]
              /\ opt_best_tour[Len(opt_best_tour)] = nn_tour[Len(nn_tour)]
              /\ opt_tour[1] = nn_tour[1]
              /\ opt_tour[Len(opt_tour)] = nn_tour[Len(nn_tour)])
    /\ [][pc = "2opt" => nn_tour' = nn_tour]_vars

\* improve_2opt has returned a tour that differs from its input
C29_Witness ==
    /\ pc \in {"nearest", "done"}
    /\ Len(opt_accepted) > 0
    /\ opt_best_tour # nn_tour
    /\ Len(nn_tour) >= 4

----------------------------------------------------------------------------
\* C28: in every engine state seen between calls (audio_lock free),
\* crossfading implies that a next buffer is staged, the crossfade cursor
\* lies in 0 .. window - 1, and the cursor is 0 whenever the engine is not
\* crossfading.
C28_CrossfadeStateInvariant ==
    /\ is_crossfading => next_audio # None
    /\ 0 <= crossfade_position /\ crossfade_position < crossfade_samples
    /\ ~is_crossfading => crossfade_position = 0

\* a crossfade part of the way through its window
C28_Witness ==
    /\ is_crossfading
    /\ crossfade_position > 0
    /\ next_audio # None
    /\ call.op = "_audio_callback"

----------------------------------------------------------------------------
\* the buffers load_song_stems can return for the library's paths
LoadedBuffers == {load_song_stems(song_path) : song_path \in SongPaths} \ {None}

\* C30: rendering never modifies the contents of the current or next track
\* buffer: after any sequence of render calls every stored sample equals the
\* value it had when the buffer was loaded.
C30_RenderLeavesBuffersIntact ==
    /\ current_audio # None => current_audio \in LoadedBuffers
    /\ next_audio # None => next_audio \in LoadedBuffers

----------------------------------------------------------------------------
(* The tour thread and the render thread under fair scheduling.             *)

\* the steps of the thread that runs _run_audio_tour
TourThread ==
    \/ PlayTourEmpty
    \/ PlayTourSetup
    \/ TourPlaySong
    \/ MonitorPrepareNext
    \/ MonitorPoll
    \/ MonitorDecide
    \/ WaitPoll
    \/ PlayTourCleanup

\* AudioMixer.chunk_size, the frames_per_buffer of the stream (1024 at 44100 Hz)
chunk_size == 1

\* the stream asks for frames_per_buffer = chunk_size frames per callback
RenderBlock ==
    /\ stream = "active"
    /\ _audio_callback(chunk_size)
    /\ UNCHANGED notEngineVars

PlayerFairNext ==
    \/ TourThread
    \/ RenderBlock

\* the tour thread keeps running (its sleeps return) and the stream keeps
\* invoking the render callback
SpecPlayerFair ==
    /\ PlayerSpecInit
    /\ [][PlayerFairNext]_vars
    /\ WF_vars(TourThread)
    /\ WF_vars(RenderBlock)

\* C26: with the render callback invoked again and again, _run_audio_tour
\* terminates for every finite tour: every _monitor_and_crossfade loop and
\* the final _wait_for_song_completion loop exits, also when a next buffer
\* fails to load and start_crossfade keeps returning False.
C26_TourTerminates == <>(tour_pc = "done")

\* the tour has ended after a monitor loop whose next song failed to load
C26_Witness ==
    /\ tour_pc = "done"
    /\ call.op = "stop"
    /\ Len(attempted) >= 2
    /\ attempted[1].ok
    /\ ~attempted[2].ok

----------------------------------------------------------------------------
(* The tour thread on tours whose songs all load and are long.              *)

\* songs whose stems load as tracks of LongTrackLen frames
LongLibrary ==
    { [path |-> "stems/long_ones", bpm |-> 100, key |-> "8A", energy |-> Rat(1, 20)],
      [path |-> "stems/long_halves", bpm |-> 110, key |-> "2A", energy |-> Rat(3, 10)],
      [path |-> "stems/long_zeros", bpm |-> 52, key |-> "8B", energy |-> Rat(1, 20)] }

LongTours ==
    UNION { { t \in [1..k -> LongLibrary] :
                \A a \in 1..k, b \in 1..k : a # b => t[a] # t[b] } : k \in 0..MaxTour }

LongPlayerInit ==
    /\ tour_songs \in LongTours /\ tour_pc = "start" /\ tour_i = 0
    /\ crossfade_start = Zero /\ crossfade_triggered = FALSE
    /\ info = [playing |-> FALSE] /\ attempted = <<>>

LongSpecInit == LongPlayerInit /\ ModelIdle /\ SolverIdle /\ EngineInit /\ LockIdle

SpecPlayerLong == LongSpecInit /\ [][PlayerNext]_vars

\* the last frame of a track is never inside a mid-track view, so it keeps
\* its loaded value and tells the library's tracks apart
TrackOf(audio) == audio[1][PyLen(audio)]

\* this step's play_song makes a different track current
ReplacedByPlaySong ==
    /\ current_audio # None
    /\ attempted' # attempted
    /\ call'.op = "play_song" /\ call'.ret = TRUE
    /\ TrackOf(current_audio') # TrackOf(current_audio)

\* this step's render call completes a crossfade and its swap makes a
\* different track current
ReplacedBySwap ==
    /\ is_crossfading /\ ~is_crossfading'
    /\ current_audio # None /\ next_audio # None
    /\ TrackOf(next_audio) # TrackOf(current_audio)

\* the read cursor has reached 80% of the current track (crossfadeStartRatio
\* is at least 0.8)
CursorPastMinimum(cursor) == 5 * cursor >= 4 * PyLen(current_audio)

\* C27: with every load succeeding and tracks much longer than the crossfade
\* window, a tour track that has become current stays current until its read
\* cursor has reached at least 80% of its length: neither play_song nor a
\* crossfade swap replaces it earlier, and every tour track is played.
C27_TrackStaysUntilCrossfadeStart ==
    /\ [][/\ ReplacedByPlaySong => CursorPastMinimum(current_position)
          /\ ReplacedBySwap =>
                 CursorPastMinimum(current_position
                                   + (crossfade_samples - crossfade_position))]_vars
    /\ [](tour_pc = "done" /\ call.op = "stop" =>
              /\ Len(attempted) = Len(tour_songs)
              /\ \A k \in 1..Len(attempted) : attempted[k].ok)

----------------------------------------------------------------------------
(* AudioMixer at the grain of audio_lock: one control thread making mixer   *)
(* calls and the render thread running _audio_callback, each a sequence of  *)
(* steps.                                                                   *)

\* the song paths the control thread passes
LockPaths == {"stems/ones", "stems/missing"}

Acquire_without_exclusion(thread) == audio_lock' = thread

\* "with self.audio_lock:" is entered: threading.Lock admits one holder
Acquire(thread) == audio_lock = "free" /\ audio_lock' = thread

\* the "with self.audio_lock:" block is left
Release(thread) == audio_lock = thread /\ audio_lock' = "free"

\* what every step of the control thread leaves alone
ControlFrame ==
    /\ UNCHANGED <<render_pc, render_local>>
    /\ UNCHANGED <<solverVars, playerVars, historyVars>>

\* what every step of the render thread leaves alone
RenderFrame ==
    /\ UNCHANGED <<control_pc, control_local, call>>
    /\ UNCHANGED <<solverVars, playerVars, historyVars>>

\* play_tour_with_audio: setup_stream() and stream.start_stream()
LockSetupStream ==
    /\ control_pc = "idle" /\ stream = "none"
    /\ stream' = "active"
    /\ call' = [op |-> "setup_stream", args |-> <<>>, ret |-> TRUE]
    /\ UNCHANGED <<current_audio, next_audio, current_position, is_crossfading,
                   crossfade_position, is_playing>>
    /\ UNCHANGED <<audio_lock, control_pc, control_local>>
    /\ ControlFrame

\* play_song(song_path) is called
PlaySongCall ==
    /\ control_pc = "idle"
    /\ \E song_path \in LockPaths : control_local' = [song_path |-> song_path]
    /\ control_pc' = "play_song.acquire"
    /\ UNCHANGED <<engineVars, audio_lock, call>>
    /\ ControlFrame

\* play_song: "with self.audio_lock:"
PlaySongAcquire ==
    /\ control_pc = "play_song.acquire"
    /\ Acquire("control")
    /\ control_pc' = "play_song.load"
    /\ UNCHANGED <<engineVars, control_local, call>>
    /\ ControlFrame

\* play_song: "audio = self.load_song_stems(song_path)" completes; on None
\* the call returns False, leaving the with block
PlaySongLoad ==
    /\ control_pc = "play_song.load"
    /\ LET audio == load_song_stems(control_local.song_path)
       IN  IF audio = None
           THEN /\ Release("control")
                /\ call' = [op |-> "play_song",
                            args |-> <<control_local.song_path>>, ret |-> FALSE]
                /\ control_pc' = "idle" /\ control_local' = None
           ELSE /\ control_local' = [song_path |-> control_local.song_path,
                                     audio |-> audio]
                /\ control_pc' = "play_song.current_audio"
                /\ UNCHANGED <<audio_lock, call>>
    /\ UNCHANGED engineVars
    /\ ControlFrame

\* play_song: "self.current_audio = audio"
PlaySongSetCurrentAudio ==
    /\ control_pc = "play_song.current_audio"
    /\ current_audio' = control_local.audio
    /\ control_pc' = "play_song.current_position"
    /\ UNCHANGED <<next_audio, current_position, is_crossfading,
                   crossfade_position, is_playing, stream>>
    /\ UNCHANGED <<audio_lock, control_local, call>>
    /\ ControlFrame

\* play_song: "self.current_position = 0"
PlaySongSetCurrentPosition ==
    /\ control_pc = "play_song.current_position"
    /\ current_position' = 0
    /\ control_pc' = "play_song.is_playing"
    /\ UNCHANGED <<current_audio, next_audio, is_crossfading,
                   crossfade_position, is_playing, stream>>
    /\ UNCHANGED <<audio_lock, control_local, call>>
    /\ ControlFrame

\* play_song: "self.is_playing = True"
PlaySongSetIsPlaying ==
    /\ control_pc = "play_song.is_playing"
    /\ is_playing' = TRUE
    /\ control_pc' = "play_song.return"
    /\ UNCHANGED <<current_audio, next_audio, current_position, is_crossfading,
                   crossfade_position, stream>>
    /\ UNCHANGED <<audio_lock, control_local, call>>
    /\ ControlFrame

\* play_song: "return True" leaves the with block
PlaySongReturn ==
    /\ control_pc = "play_song.return"
    /\ Release("control")
    /\ call' = [op |-> "play_song", args |-> <<control_local.song_path>>, ret |-> TRUE]
    /\ control_pc' = "idle" /\ control_local' = None
    /\ UNCHANGED engineVars
    /\ ControlFrame

\* prepare_next_song(song_path) is called
PrepareNextSongCall ==
    /\ control_pc = "idle"
    /\ \E song_path \in LockPaths : control_local' = [song_path |-> song_path]
    /\ control_pc' = "prepare_next_song.load"
    /\ UNCHANGED <<engineVars, audio_lock, call>>
    /\ ControlFrame

\* prepare_next_song: "audio = self.load_song_stems(song_path)" completes;
\* on None the call returns
PrepareNextSongLoad ==
    /\ control_pc = "prepare_next_song.load"
    /\ LET audio == load_song_stems(control_local.song_path)
       IN  IF audio = None
           THEN /\ call' = [op |-> "prepare_next_song",
                            args |-> <<control_local.song_path>>, ret |-> None]
                /\ control_pc' = "idle" /\ control_local' = None
           ELSE /\ control_local' = [song_path |-> control_local.song_path,
                                     audio |-> audio]
                /\ control_pc' = "prepare_next_song.acquire"
                /\ UNCHANGED call
    /\ UNCHANGED <<engineVars, audio_lock>>
    /\ ControlFrame

\* prepare_next_song: "with self.audio_lock:"
PrepareNextSongAcquire ==
    /\ control_pc = "prepare_next_song.acquire"
    /\ Acquire("control")
    /\ control_pc' = "prepare_next_song.next_audio"
    /\ UNCHANGED <<engineVars, control_local, call>>
    /\ ControlFrame

\* prepare_next_song: "self.next_audio = audio"
PrepareNextSongSetNextAudio ==
    /\ control_pc = "prepare_next_song.next_audio"
    /\ next_audio' = control_local.audio
    /\ control_pc' = "prepare_next_song.return"
    /\ UNCHANGED <<current_audio, current_position, is_crossfading,
                   crossfade_position, is_playing, stream>>
    /\ UNCHANGED <<audio_lock, control_local, call>>
    /\ ControlFrame

\* prepare_next_song: the with block and the call end
PrepareNextSongReturn ==
    /\ control_pc = "prepare_next_song.return"
    /\ Release("control")
    /\ call' = [op |-> "prepare_next_song",
                args |-> <<control_local.song_path>>, ret |-> None]
    /\ control_pc' = "idle" /\ control_local' = None
    /\ UNCHANGED engineVars
    /\ ControlFrame

\* start_crossfade() is called
StartCrossfadeCall ==
    /\ control_pc = "idle"
    /\ current_position < MaxPosition
    /\ control_pc' = "start_crossfade.acquire"
    /\ UNCHANGED <<engineVars, audio_lock, control_local, call>>
    /\ ControlFrame

\* start_crossfade: "with self.audio_lock:"
StartCrossfadeAcquire ==
    /\ control_pc = "start_crossfade.acquire"
    /\ Acquire("control")
    /\ control_pc' = "start_crossfade.test"
    /\ UNCHANGED <<engineVars, control_local, call>>
    /\ ControlFrame

\* start_crossfade: "if self.next_audio is not None"; otherwise "return False"
StartCrossfadeTest ==
    /\ control_pc = "start_crossfade.test"
    /\ IF next_audio # None
       THEN /\ control_pc' = "start_crossfade.is_crossfading"
            /\ UNCHANGED <<audio_lock, call>>
       ELSE /\ Release("control")
            /\ call' = [op |-> "start_crossfade", args |-> <<>>, ret |-> FALSE]
            /\ control_pc' = "idle"
    /\ UNCHANGED <<engineVars, control_local>>
    /\ ControlFrame

\* start_crossfade: "self.is_crossfading = True"
StartCrossfadeSetIsCrossfading ==
    /\ control_pc = "start_crossfade.is_crossfading"
    /\ is_crossfading' = TRUE
    /\ control_pc' = "start_crossfade.crossfade_position"
    /\ UNCHANGED <<current_audio, next_audio, current_position,
                   crossfade_position, is_playing, stream>>
    /\ UNCHANGED <<audio_lock, control_local, call>>
    /\ ControlFrame

\* start_crossfade: "self.crossfade_position = 0"
StartCrossfadeSetCrossfadePosition ==
    /\ control_pc = "start_crossfade.crossfade_position"
    /\ crossfade_position' = 0
    /\ control_pc' = "start_crossfade.return"
    /\ UNCHANGED <<current_audio, next_audio, current_position, is_crossfading,
                   is_playing, stream>>
    /\ UNCHANGED <<audio_lock, control_local, call>>
    /\ ControlFrame

\* start_crossfade: "return True" leaves the with block
StartCrossfadeReturn ==
    /\ control_pc = "start_crossfade.return"
    /\ Release("control")
    /\ call' = [op |-> "start_crossfade", args |-> <<>>, ret |-> TRUE]
    /\ control_pc' = "idle"
    /\ UNCHANGED <<engineVars, control_local>>
    /\ ControlFrame

\* get_playback_info() is called
GetPlaybackInfoCall ==
    /\ control_pc = "idle"
    /\ control_pc' = "get_playback_info.acquire"
    /\ UNCHANGED <<engineVars, audio_lock, control_local, call>>
    /\ ControlFrame

\* get_playback_info: "with self.audio_lock:"
GetPlaybackInfoAcquire ==
    /\ control_pc = "get_playback_info.acquire"
    /\ Acquire("control")
    /\ control_pc' = "get_playback_info.read"
    /\ UNCHANGED <<engineVars, control_local, call>>
    /\ ControlFrame

\* get_playback_info: the fields are read and the dict is built
GetPlaybackInfoRead ==
    /\ control_pc = "get_playback_info.read"
    /\ control_local' = [info |-> PlaybackInfo]
    /\ control_pc' = "get_playback_info.return"
    /\ UNCHANGED <<engineVars, audio_lock, call>>
    /\ ControlFrame

\* get_playback_info: "return" leaves the with block
GetPlaybackInfoReturn ==
    /\ control_pc = "get_playback_info.return"
    /\ Release("control")
    /\ call' = [op |-> "get_playback_info", args |-> <<>>, ret |-> control_local.info]
    /\ control_pc' = "idle" /\ control_local' = None
    /\ UNCHANGED engineVars
    /\ ControlFrame

\* stop() is called
StopCall ==
    /\ control_pc = "idle"
    /\ control_pc' = "stop.acquire"
    /\ UNCHANGED <<engineVars, audio_lock, control_local, call>>
    /\ ControlFrame

\* stop: "with self.audio_lock:"
StopAcquire ==
    /\ control_pc = "stop.acquire"
    /\ Acquire("control")
    /\ control_pc' = "stop.is_playing"
    /\ UNCHANGED <<engineVars, control_local, call>>
    /\ ControlFrame

\* stop: "self.is_playing = False"
StopSetIsPlaying ==
    /\ control_pc = "stop.is_playing"
    /\ is_playing' = FALSE
    /\ control_pc' = "stop.release"
    /\ UNCHANGED <<current_audio, next_audio, current_position, is_crossfading,
                   crossfade_position, stream>>
    /\ UNCHANGED <<audio_lock, control_local, call>>
    /\ ControlFrame

\* stop: the with block is left
StopRelease ==
    /\ control_pc = "stop.release"
    /\ Release("control")
    /\ control_pc' = "stop.stream"
    /\ UNCHANGED <<engineVars, control_local, call>>
    /\ ControlFrame

\* stop: "if self.stream: self.stream.stop_stream(); self.stream.close()";
\* stop_stream returns once no callback is running
StopStream ==
    /\ control_pc = "stop.stream"
    /\ render_pc = "idle"
    /\ stream' = IF stream = "none" THEN "none" ELSE "closed"
    /\ call' = [op |-> "stop", args |-> <<>>, ret |-> None]
    /\ control_pc' = "idle"
    /\ UNCHANGED <<current_audio, next_audio, current_position, is_crossfading,
                   crossfade_position, is_playing>>
    /\ UNCHANGED <<audio_lock, control_local>>
    /\ ControlFrame

\* the stream invokes _audio_callback for chunk_size frames
RenderInvoke ==
    /\ stream = "active" /\ render_pc = "idle"
    /\ render_pc' = "acquire"
    /\ UNCHANGED <<engineVars, audio_lock, render_local>>
    /\ RenderFrame

\* _audio_callback: "with self.audio_lock:"
RenderAcquire ==
    /\ render_pc = "acquire"
    /\ Acquire("render")
    /\ render_pc' = "generate"
    /\ UNCHANGED <<engineVars, render_local>>
    /\ RenderFrame

\* _audio_callback: silence when idle, else _generate_audio_chunk up to the
\* test "if self.crossfade_position >= self.crossfade_samples"; the loop of
\* the crossfade branch ends with its first pass (either the block is full
\* or the crossfade completes and breaks)
RenderGenerate ==
    /\ render_pc = "generate"
    /\ IF ~is_playing \/ current_audio = None
       THEN /\ render_local' = [output |-> Constant(chunk_size, SilentFrame)]
            /\ render_pc' = "return"
            /\ UNCHANGED <<current_audio, next_audio, current_position,
                           is_crossfading, crossfade_position>>
       ELSE \E after \in {_generate_audio_chunk(Self, chunk_size)} :
                IF ~is_crossfading
                THEN /\ current_audio' = after.current_audio
                     /\ current_position' = after.current_position
                     /\ render_local' = [output |-> after.output]
                     /\ render_pc' = "return"
                     /\ UNCHANGED <<next_audio, is_crossfading, crossfade_position>>
                ELSE LET samples_needed ==
                             PyMin(chunk_size, crossfade_samples - crossfade_position)
                     IN  /\ current_position' = current_position + samples_needed
                         /\ crossfade_position' = crossfade_position + samples_needed
                         /\ render_local' = [output |-> after.output,
                                             samples_needed |-> samples_needed]
                         /\ render_pc' =
                                IF crossfade_position + samples_needed >= crossfade_samples
                                THEN "swap.current_audio"
                                ELSE "return"
                         /\ UNCHANGED <<current_audio, next_audio, is_crossfading>>
    /\ UNCHANGED <<is_playing, stream, audio_lock>>
    /\ RenderFrame

\* the swap: "self.current_audio = self.next_audio"
RenderSwapCurrentAudio ==
    /\ render_pc = "swap.current_audio"
    /\ current_audio' = next_audio
    /\ render_pc' = "swap.next_audio"
    /\ UNCHANGED <<next_audio, current_position, is_crossfading,
                   crossfade_position, is_playing, stream>>
    /\ UNCHANGED <<audio_lock, render_local>>
    /\ RenderFrame

\* the swap: "self.next_audio = None"
RenderSwapNextAudio ==
    /\ render_pc = "swap.next_audio"
    /\ next_audio' = None
    /\ render_pc' = "swap.current_position"
    /\ UNCHANGED <<current_audio, current_position, is_crossfading,
                   crossfade_position, is_playing, stream>>
    /\ UNCHANGED <<audio_lock, render_local>>
    /\ RenderFrame

\* the swap: "self.current_position = samples_needed"
RenderSwapCurrentPosition ==
    /\ render_pc = "swap.current_position"
    /\ current_position' = render_local.samples_needed
    /\ render_pc' = "swap.is_crossfading"
    /\ UNCHANGED <<current_audio, next_audio, is_crossfading,
                   crossfade_position, is_playing, stream>>
    /\ UNCHANGED <<audio_lock, render_local>>
    /\ RenderFrame

\* the swap: "self.is_crossfading = False"
RenderSwapIsCrossfading ==
    /\ render_pc = "swap.is_crossfading"
    /\ is_crossfading' = FALSE
    /\ render_pc' = "swap.crossfade_position"
    /\ UNCHANGED <<current_audio, next_audio, current_position,
                   crossfade_position, is_playing, stream>>
    /\ UNCHANGED <<audio_lock, render_local>>
    /\ RenderFrame

\* the swap: "self.crossfade_position = 0" and "break"
RenderSwapCrossfadePosition ==
    /\ render_pc = "swap.crossfade_position"
    /\ crossfade_position' = 0
    /\ render_pc' = "return"
    /\ UNCHANGED <<current_audio, next_audio, current_position, is_crossfading,
                   is_playing, stream>>
    /\ UNCHANGED <<audio_lock, render_local>>
    /\ RenderFrame

\* _audio_callback: "return (output.tobytes(), pyaudio.paContinue)" leaves the
\* with block
RenderReturn ==
    /\ render_pc = "return"
    /\ Release("render")
    /\ render_pc' = "idle" /\ render_local' = None
    /\ UNCHANGED engineVars
    /\ RenderFrame

ControlThread ==
    \/ LockSetupStream
    \/ PlaySongCall \/ PlaySongAcquire \/ PlaySongLoad \/ PlaySongSetCurrentAudio
    \/ PlaySongSetCurrentPosition \/ PlaySongSetIsPlaying \/ PlaySongReturn
    \/ PrepareNextSongCall \/ PrepareNextSongLoad \/ PrepareNextSongAcquire
    \/ PrepareNextSongSetNextAudio \/ PrepareNextSongReturn
    \/ StartCrossfadeCall \/ StartCrossfadeAcquire \/ StartCrossfadeTest
    \/ StartCrossfadeSetIsCrossfading \/ StartCrossfadeSetCrossfadePosition
    \/ StartCrossfadeReturn
    \/ GetPlaybackInfoCall \/ GetPlaybackInfoAcquire \/ GetPlaybackInfoRead
    \/ GetPlaybackInfoReturn
    \/ StopCall \/ StopAcquire \/ StopSetIsPlaying \/ StopRelease \/ StopStream

RenderThread ==
    \/ RenderInvoke \/ RenderAcquire \/ RenderGenerate
    \/ RenderSwapCurrentAudio \/ RenderSwapNextAudio \/ RenderSwapCurrentPosition
    \/ RenderSwapIsCrossfading \/ RenderSwapCrossfadePosition
    \/ RenderReturn

LockNext == ControlThread \/ RenderThread

SpecLock == Init /\ [][LockNext]_vars

----------------------------------------------------------------------------
\* a load_song_stems call of the control thread is in progress
Loading == control_pc \in {"play_song.load", "prepare_next_song.load"}

\* the render callback is blocked at "with self.audio_lock:"
RenderWaiting == render_pc = "acquire" /\ audio_lock # "free"

\* C24: while play_song or prepare_next_song is loading a buffer the control
\* thread does not hold audio_lock, so the render callback is never waiting
\* for the lock during a load.
C24_NoLoadUnderLock ==
    Loading => (audio_lock # "control" /\ ~RenderWaiting)

\* the control thread's positions inside a "with self.audio_lock:" block
ControlLocked ==
    {"play_song.load", "play_song.current_audio", "play_song.current_position",
     "play_song.is_playing", "play_song.return",
     "prepare_next_song.next_audio", "prepare_next_song.return",
     "start_crossfade.test", "start_crossfade.is_crossfading",
     "start_crossfade.crossfade_position", "start_crossfade.return",
     "get_playback_info.read", "get_playback_info.return",
     "stop.is_playing", "stop.release"}

\* the render thread's positions inside its "with self.audio_lock:" block
RenderLocked ==
    {"generate", "swap.current_audio", "swap.next_audio", "swap.current_position",
     "swap.is_crossfading", "swap.crossfade_position", "return"}

\* the buffers, cursors and flags audio_lock protects
SharedFields ==
    <<current_audio, next_audio, current_position, is_crossfading,
      crossfade_position, is_playing>>

\* the swap of _generate_audio_chunk has begun and is not complete
MidSwap ==
    render_pc \in {"swap.current_audio", "swap.next_audio", "swap.current_position",
                   "swap.is_crossfading", "swap.crossfade_position"}

\* C25: under every interleaving of the control thread and the render thread,
\* each thread is inside a with block exactly while it holds audio_lock (so
\* never both), every step that reads or writes the shared fields is taken by
\* the holder, and what get_playback_info returns is the mixer's state with
\* no callback under way: never a half-applied swap, so never "crossfading"
\* without "next_prepared".
C25_AccessesUnderLock ==
    /\ [](/\ (control_pc \in ControlLocked) <=> (audio_lock = "control")
          /\ (render_pc \in RenderLocked) <=> (audio_lock = "render")
          /\ control_pc = "get_playback_info.return" =>
                /\ ~MidSwap
                /\ control_local.info = PlaybackInfo
                /\ ("crossfading" \in DOMAIN control_local.info
                      /\ control_local.info.crossfading)
                   => control_local.info.next_prepared)
    /\ [][SharedFields' # SharedFields =>
            \/ control_pc' # control_pc /\ audio_lock = "control"
            \/ render_pc' # render_pc /\ audio_lock = "render"]_vars

\* get_playback_info is called while the swap is half applied: current_audio
\* is already the new track, the crossfading flag is still set, and the call
\* waits for the lock
C25_Witness ==
    /\ control_pc = "get_playback_info.acquire"
    /\ render_pc = "swap.is_crossfading"
    /\ audio_lock = "render"
    /\ is_crossfading /\ next_audio = None

=============================================================================
